---- MODULE Spec2Model ----
(***************************************************************************)
(* ArrayViewer: the slice / cutout / tiling / tick engine of               *)
(* src/ArrayViewer/Charts.py and src/ArrayViewer/Shape.py.                 *)
(*                                                                         *)
(* Arrays are records [shape, at]: shape is the tuple of dimension sizes,  *)
(* at maps every 0-based multi-index (a tuple) to an element.  An element  *)
(* is the set of source multi-indices it was computed from: a singleton    *)
(* for an element of the source array, a larger set after a reduction,     *)
(* and the empty set for the fill value (NaN) of the mosaic padding.       *)
(***************************************************************************)
EXTENDS Integers, Sequences, FiniteSets, TLC

VARIABLES
    \* --- the tiling functions applied to a cutout (pure-function harness)
    mShape,     \* Array.shape handed to _flat_with_padding
    mPad,       \* padding handed to _flat_with_padding and to the inverse
    mRows,      \* rows, as _flat_with_padding got it from _rows_from_dim
    mFlat,      \* the mosaic _flat_with_padding returned (NoArray before)
    mClick,     \* ind = [x, y] handed to _unravel_flat_with_padding
    mInd,       \* what _unravel_flat_with_padding returned
    \* --- _setlocator applied to a tick source (pure-function harness)
    tLim,       \* lim: the tick source handed to _setlocator
    tPad,       \* nPad handed to _setlocator (0 stands for None)
    tLoc,       \* loc: the locator positions, as numerators over tDen
    tDen,       \* the common denominator of the locator positions
    tD,         \* d: the derived tick values, before they are rendered
    tLabels,    \* what set_ticklabels was given
    tDone,      \* _setlocator has returned
    \* --- RGB normalization applied to a cutout (pure-function harness)
    rgbCut,     \* the values of the cutout handed to the normalization
    rgbDat,     \* what the normalization handed to imshow
    \* --- the viewer
    _data,      \* ViewerWindow._data: the shape of the array under each key
    cText,      \* the key of the item selected in the tree
    data,       \* the shape of the array ViewerWindow.get(0) returns
    Shape,      \* ShapeSelector: label texts, field texts, operation_state
    Graph,      \* GraphWidget: see GraphInit
    Transp,     \* the Transpose checkbox is checked
    opts,       \* the checked options of the Plot menu
    slices,     \* ViewerWindow.slices: pairs <<key, field texts>>
    exc,        \* the exception that left the last handler, if any
    passed,     \* the arguments of the renewPlot call of the last handler
    errMsg,     \* the text the last handler put into the errMsg label
    event,      \* the last event of the user
    nEdits,     \* the number of fields the user has edited
    nOps,       \* the number of dialogs the user has used on the data
    nClicks,    \* the number of clicks of the user on the plot
    \* --- the loading of files
    keys,       \* ViewerWindow.keys: the top-level keys, in order
    diffNo,     \* ViewerWindow.diffNo: the number of the next Diff
    loading,    \* the number of 'loading...' items in the tree
    loads,      \* the load signals emitted, in order, each with the number
                \* of doneLoading signals the Loader answered it with
    signals     \* the doneLoading signals the viewer has not yet handled

mosaicVars == <<mShape, mPad, mRows, mFlat, mClick, mInd>>

tickVars == <<tLim, tPad, tLoc, tDen, tD, tLabels, tDone>>

rgbVars == <<rgbCut, rgbDat>>

viewVars ==
    <<_data, cText, data, Shape, Graph, Transp, opts, slices, exc, passed,
      errMsg, event, nEdits, nOps, nClicks>>

loadVars == <<keys, diffNo, loading, loads, signals>>

vars == <<mosaicVars, tickVars, rgbVars, viewVars, loadVars>>

-----------------------------------------------------------------------------
(* Bounds of the model *)

\* sizes of the two tile dimensions of a mosaic input range over 1..MaxTile
MaxTile == 2
\* the product of the trailing (page) dimensions is at most MaxPages
MaxPages == 6
\* paddings range over 0..MaxPad
MaxPad == 1
\* mosaic inputs have rank 3..MaxMosaicRank
MaxMosaicRank == 4

-----------------------------------------------------------------------------
(* Tuples and arithmetic *)

Min(a, b) == IF a < b THEN a ELSE b

Max(a, b) == IF a > b THEN a ELSE b

Abs(a) == IF a < 0 THEN -a ELSE a

\* Python's floor division and modulo for a positive divisor
FloorDiv(a, b) == a \div b

RECURSIVE Prod(_)
\* np.prod of a tuple; the empty product is 1
Prod(s) == IF s = <<>> THEN 1 ELSE Head(s) * Prod(Tail(s))

RECURSIVE Reverse(_)
Reverse(s) == IF s = <<>> THEN <<>> ELSE Reverse(Tail(s)) \o <<Head(s)>>

\* s[from:] of a tuple (0-based from)
Drop(s, n) == SubSeq(s, n + 1, Len(s))

\* s[:n] of a tuple
Take(s, n) == SubSeq(s, 1, Min(n, Len(s)))

\* the tuple s with its 0-based position k set to v
SetAt(s, k, v) == [s EXCEPT ![k + 1] = v]

\* int(np.sqrt(n)) for n >= 0
Isqrt(n) == CHOOSE r \in 0..n : r * r <= n /\ (r + 1) * (r + 1) > n

-----------------------------------------------------------------------------
(* numpy arrays *)

RECURSIVE Idx(_)
\* every multi-index of an array of the given shape
Idx(shape) ==
    IF shape = <<>> THEN {<<>>}
    ELSE {<<i>> \o t : i \in 0..(Head(shape) - 1), t \in Idx(Tail(shape))}

NoArray == [shape |-> <<0>>, at |-> <<>>]

Nan == {}

\* a source array: every element is named by its own multi-index
SourceArr(shape) == [shape |-> shape, at |-> [ix \in Idx(shape) |-> {ix}]]

\* np.ones(shape) * fill
Full(shape, fill) == [shape |-> shape, at |-> [ix \in Idx(shape) |-> fill]]

RECURSIVE RavelIndex(_, _)
\* C-order flat position of multi-index ix in an array of the given shape
RavelIndex(ix, shape) ==
    IF ix = <<>> THEN 0
    ELSE Head(ix) * Prod(Tail(shape)) + RavelIndex(Tail(ix), Tail(shape))

\* np.reshape(A, newshape), C order: the element at flat position k stays at k
Reshape(A, newshape) ==
    [shape |-> newshape,
     at |-> [ix \in Idx(newshape) |->
               A.at[CHOOSE jx \in Idx(A.shape) :
                       RavelIndex(jx, A.shape) = RavelIndex(ix, newshape)]]]

\* np.append(A, B, axis=axis): B after A along the 0-based axis
Append_(A, B, axis) ==
    LET na == A.shape[axis + 1]
        sh == SetAt(A.shape, axis, na + B.shape[axis + 1])
    IN [shape |-> sh,
        at |-> [ix \in Idx(sh) |->
                  IF ix[axis + 1] < na THEN A.at[ix]
                  ELSE B.at[SetAt(ix, axis, ix[axis + 1] - na)]]]

\* A.T: all axes reversed
T_(A) ==
    [shape |-> Reverse(A.shape),
     at |-> [ix \in Idx(Reverse(A.shape)) |-> A.at[Reverse(ix)]]]

\* iterating an array: the sequence of its sub-arrays along axis 0
Unstack(A) ==
    [k \in 1..A.shape[1] |->
        [shape |-> Tail(A.shape),
         at |-> [ix \in Idx(Tail(A.shape)) |-> A.at[<<k - 1>> \o ix]]]]

RECURSIVE Hstack(_)
\* np.hstack of a non-empty sequence of arrays: along axis 1 (axis 0 for 1-D)
Hstack(arrs) ==
    IF Len(arrs) = 1 THEN arrs[1]
    ELSE LET init == Hstack(SubSeq(arrs, 1, Len(arrs) - 1))
             axis == IF Len(init.shape) = 1 THEN 0 ELSE 1
         IN Append_(init, arrs[Len(arrs)], axis)

\* np.split(A, n): n equal sections along axis 0
Split(A, n) ==
    LET len == A.shape[1] \div n
    IN [k \in 1..n |->
          [shape |-> SetAt(A.shape, 0, len),
           at |-> [ix \in Idx(SetAt(A.shape, 0, len)) |->
                     A.at[SetAt(ix, 0, ix[1] + (k - 1) * len)]]]]

RECURSIVE UnravelIndex(_, _)
\* np.unravel_index(k, dims), C order
UnravelIndex(k, dims) ==
    IF dims = <<>> THEN <<>>
    ELSE LET rest == Prod(Tail(dims))
         IN <<k \div rest>> \o UnravelIndex(k % rest, Tail(dims))

-----------------------------------------------------------------------------
(* Tiling / padding layout: Charts.py, module level *)

\* the for loop of _rows_from_dim: the first n of range(lo, last_dim + 1)
\* that divides last_dim
FirstDivisor(last_dim, lo) ==
    CHOOSE n \in lo..last_dim :
        /\ last_dim % n = 0
        /\ \A m \in lo..(n - 1) : last_dim % m # 0

\* the mutant of _rows_from_dim: rows and columns of the grid exchanged
RowsFromDimSwapped(dim) ==
    IF Len(dim) = 4 /\ 18 * dim[4] < 100 * dim[3] /\ 10 * dim[3] < 55 * dim[4]
    THEN dim[4]
    ELSE FirstDivisor(Prod(Drop(dim, 2)), Isqrt(Prod(Drop(dim, 2))))

\* the mutant of _rows_from_dim: a ratio dim2/dim3 of 5.5 is in the interval
RowsFromDimClosed(dim) ==
    IF Len(dim) = 4 /\ 18 * dim[4] < 100 * dim[3] /\ 10 * dim[3] <= 55 * dim[4]
    THEN dim[3]
    ELSE LET last_dim == Prod(Drop(dim, 2))
             n == FirstDivisor(last_dim, Isqrt(last_dim))
         IN last_dim \div n

\* _rows_from_dim(dim); .18 < dim[2] / dim[3] < 5.5 in exact arithmetic
_rows_from_dim(dim) ==
    IF Len(dim) = 4 /\ 18 * dim[4] < 100 * dim[3] /\ 10 * dim[3] < 55 * dim[4]
    THEN dim[3]
    ELSE LET last_dim == Prod(Drop(dim, 2))
             n == FirstDivisor(last_dim, Isqrt(last_dim))
         IN last_dim \div n

\* _flat_with_padding(Array, padding, fill), rows being _rows_from_dim's answer
FlatWithRows(Array, padding, fill, rows) ==
    LET sh   == Array.shape
        Arr  == Reshape(Array, <<sh[1], sh[2], Prod(Drop(sh, 2))>>)
        A0   == Full(<<padding, Arr.shape[2], Arr.shape[3]>>, fill)
        A1   == Full(<<Arr.shape[1] + padding, padding, Arr.shape[3]>>, fill)
        pArr == Append_(Append_(Arr, A0, 0), A1, 1)
        pA2D == T_(Hstack(Split(T_(Hstack(Unstack(T_(pArr)))), rows)))
        B0   == Full(<<padding, pA2D.shape[2]>>, fill)
        B1   == Full(<<pA2D.shape[1] + padding, padding>>, fill)
    IN Append_(B1, Append_(B0, pA2D, 0), 1)

_flat_with_padding(Array, padding, fill) ==
    FlatWithRows(Array, padding, fill, _rows_from_dim(Array.shape))

\* the mutant of _unravel_flat_with_padding: the page index is taken
\* row-major over the boxes with the row count in place of the column count
UnravelRowCount(ind, sh, pad) ==
    LET ind0 == [k \in 1..2 |-> IF ind[k] > pad THEN ind[k] - pad ELSE 0]
        rows == _rows_from_dim(sh)
        box  == <<ind0[1] \div (sh[1] + pad), ind0[2] \div (sh[2] + pad)>>
    IN <<ind0[1] % (sh[1] + pad), ind0[2] % (sh[2] + pad)>>
          \o UnravelIndex(box[2] * rows + box[1], Drop(sh, 2))

\* _unravel_flat_with_padding(ind, sh, pad) for ind = [x, y]
_unravel_flat_with_padding(ind, sh, pad) ==
    LET ind0 == [k \in 1..2 |-> IF ind[k] > pad THEN ind[k] - pad ELSE 0]
        cols == Prod(Drop(sh, 2)) \div _rows_from_dim(sh)
        box_index == <<ind0[1] \div (sh[1] + pad), ind0[2] \div (sh[2] + pad)>>
    IN <<ind0[1] % (sh[1] + pad), ind0[2] % (sh[2] + pad)>>
          \o UnravelIndex(box_index[2] * cols + box_index[1], Drop(sh, 2))

-----------------------------------------------------------------------------
(* The widgets as their constructors leave them *)

\* None and an int n, where Python has either
None == <<>>

Some(n) == <<n>>

NoExc == [type |-> "", at |-> ""]

Raised(type, at) == [type |-> type, at |-> at]

\* the axis tuple self._oprcorr holds, or None
NoAxes == [none |-> TRUE]

Axes(t) == [none |-> FALSE, axes |-> t]

\* what the axes show: the renderer plot() chose and, for an image, the
\* array handed to imshow, for the lines of the columns the array handed to
\* axes.plot
Shown(kind) == [kind |-> kind, dat |-> NoArray]

ShownImage(kind, dat) == [kind |-> kind, dat |-> dat]

\* a GraphWidget as __init__ leaves it; annotation is the visibility of the
\* annotation text, picker tells that the artists in the axes have been
\* given a picker, _anim_timer is _anim_timer.isActive()
GraphInit ==
    [has_operation |-> FALSE, _opr |-> "None", _oprdim |-> <<>>,
     _oprcorr |-> NoAxes, cutout |-> NoArray,
     ticks |-> <<[kind |-> "list", v |-> <<0, -1, 1>>]>>,
     _tick_str |-> [scalDims |-> <<>>, s_mod |-> <<>>],
     shown |-> Shown("cleared"),
     last_clicked |-> None, annotation |-> FALSE, picker |-> FALSE,
     _anim_timer |-> FALSE, _anim_step |-> 0, _anim_dim |-> None,
     _anim_cutout |-> NoArray]

\* a ShapeSelector as __init__ leaves it: no widget is shown
ShapeInit ==
    [labels |-> <<>>, fields |-> <<>>, operation_state |-> <<>>,
     animation_state |-> -1]

\* the checkable options of the Plot menu and the 'unsave' option, unchecked
OptsOff ==
    [Plot2D |-> FALSE, PlotScat |-> FALSE, Plot3D |-> FALSE, MMM |-> FALSE,
     PrintFlat |-> FALSE, unsave |-> FALSE]

\* renewPlot has not been called by the last handler
NotPassed == [called |-> FALSE, s |-> <<>>, scalDims |-> <<>>]

Passed(s, scalDims) == [called |-> TRUE, s |-> s, scalDims |-> scalDims]

\* the last event of the user was none a claim is about
NoEvent == [kind |-> "none"]

\* info_msg has not been called
NoMsg == ""

\* _n_D_plot has not come to its RGB(A) branch
NoComposite == [done |-> FALSE, dat |-> NoArray, zerodiv |-> FALSE]

\* the harness of the RGB normalization is not in use
RgbIdle ==
    /\ rgbCut = NoArray
    /\ rgbDat = NoComposite

\* no file is being loaded
NoLoads ==
    /\ diffNo = 0
    /\ loading = 0
    /\ loads = <<>>
    /\ signals = <<>>

\* no data is loaded into the viewer
ViewIdle ==
    /\ keys = <<>>
    /\ NoLoads
    /\ _data = <<>>
    /\ cText = ""
    /\ errMsg = NoMsg
    /\ data = <<>>
    /\ Shape = ShapeInit
    /\ Graph = GraphInit
    /\ Transp = FALSE
    /\ opts = OptsOff
    /\ slices = {}
    /\ exc = NoExc
    /\ passed = NotPassed
    /\ event = NoEvent
    /\ nEdits = 0
    /\ nOps = 0
    /\ nClicks = 0

-----------------------------------------------------------------------------
(* The tiling functions applied to bounded inputs *)

RECURSIVE PageDims(_, _)
\* the tuples of n sizes >= 1 whose product is at most maxProd
PageDims(n, maxProd) ==
    IF n = 0 THEN {<<>>}
    ELSE {<<d>> \o t : d \in 1..maxProd, t \in PageDims(n - 1, maxProd)} 

MosaicShapes ==
    {<<4, 4, 6>>} \cup
    {<<d0, d1>> \o t :
        d0 \in 1..MaxTile, d1 \in 1..MaxTile,
        t \in {u \in UNION {PageDims(n, MaxPages) : n \in 1..(MaxMosaicRank - 2)} :
                 Prod(u) <= MaxPages}}

\* the harness of _setlocator is not in use
TicksIdle ==
    /\ tLim = [kind |-> "none"]
    /\ tPad = 0
    /\ tLoc = <<>>
    /\ tDen = 1
    /\ tD = <<>>
    /\ tLabels = <<>>
    /\ tDone = FALSE

InitMosaic ==
    /\ mShape \in MosaicShapes
    /\ mPad \in 0..MaxPad
    /\ mRows = 0
    /\ mFlat = NoArray
    /\ mClick = <<>>
    /\ mInd = <<>>
    /\ TicksIdle
    /\ RgbIdle
    /\ ViewIdle

\* _flat_with_padding is applied to the array of shape mShape
ApplyFlat ==
    /\ mFlat = NoArray
    /\ mRows' = _rows_from_dim(mShape)
    /\ mFlat' = FlatWithRows(SourceArr(mShape), mPad, Nan, mRows')
    /\ UNCHANGED <<mShape, mPad, mClick, mInd>>
    /\ UNCHANGED <<tickVars, rgbVars, viewVars, loadVars>>

\* _unravel_flat_with_padding is applied to a pixel [x, y] of the mosaic
ApplyUnravel ==
    /\ mFlat # NoArray
    /\ mClick = <<>>
    /\ \E y \in 0..(mFlat.shape[1] - 1), x \in 0..(mFlat.shape[2] - 1) :
          /\ mClick' = <<x, y>>
          /\ mInd' = _unravel_flat_with_padding(<<x, y>>, mShape, mPad)
    /\ UNCHANGED <<mShape, mPad, mRows, mFlat>>
    /\ UNCHANGED <<tickVars, rgbVars, viewVars, loadVars>>

NextMosaic == ApplyFlat \/ ApplyUnravel

SpecMosaic == InitMosaic /\ [][NextMosaic]_vars

\* C1: round trip of the mosaic mapping.  Whenever the inverse has been
\* applied to a pixel (x = column, y = row) at which the mosaic shows an
\* element of the array, it returned exactly that element's multi-index.
C1_RoundTrip ==
    (mClick # <<>> /\ mFlat.at[<<mClick[2], mClick[1]>>] # Nan)
        => mFlat.at[<<mClick[2], mClick[1]>>] = {mInd}

\* every element of the array is shown at exactly one pixel of the mosaic
C1_EveryElementShown ==
    mFlat # NoArray =>
        \A ix \in Idx(mShape) :
            Cardinality({p \in DOMAIN mFlat.at : mFlat.at[p] = {ix}}) = 1

\* the inverse was applied, with a padding of 0 and of more than 0, to the
\* pixel of an element on a page other than the first of a rank-4 array
C1_Witness ==
    /\ mClick # <<>>
    /\ mFlat.at[<<mClick[2], mClick[1]>>] # Nan
    /\ Len(mShape) = 4
    /\ mInd[3] > 0 /\ mInd[4] > 0 /\ mInd[1] > 0
    /\ mPad > 0

\* the 4-D special case of _rows_from_dim: rank 4 and 0.18 < dim2/dim3 < 5.5
IsAspectCase(dim) ==
    Len(dim) = 4 /\ 18 * dim[4] < 100 * dim[3] /\ 10 * dim[3] < 55 * dim[4]

\* the smallest divisor n of pages with n >= sqrt(pages)
DivisorAtLeastSqrt(pages) ==
    CHOOSE n \in 1..pages :
        /\ pages % n = 0 /\ n * n >= pages
        /\ \A m \in 1..(n - 1) : ~(pages % m = 0 /\ m * m >= pages)

\* the smallest divisor n of pages with n >= floor(sqrt(pages))
DivisorAtLeastFloorSqrt(pages) ==
    CHOOSE n \in 1..pages :
        /\ pages % n = 0 /\ (n + 1) * (n + 1) > pages
        /\ \A m \in 1..(n - 1) : ~(pages % m = 0 /\ (m + 1) * (m + 1) > pages)

\* C4 as stated: outside the 4-D special case rows = pages / n for the
\* smallest divisor n >= sqrt(pages) of pages, and shape (4,4,6) with
\* padding 1 gives rows = 2 and a mosaic of shape (11, 16).
C4_AsStated ==
    (mFlat # NoArray /\ ~IsAspectCase(mShape)) =>
        /\ mRows = Prod(Drop(mShape, 2)) \div DivisorAtLeastSqrt(Prod(Drop(mShape, 2)))
        /\ (mShape = <<4, 4, 6>> /\ mPad = 1) =>
              (mRows = 2 /\ mFlat.shape = <<11, 16>>)

\* C4 amended: outside the 4-D special case rows = pages / n for the
\* smallest divisor n of pages with n >= floor(sqrt(pages)); the mosaic has
\* rows * (dim1 + padding) + padding rows and
\* (pages / rows) * (dim0 + padding) + padding columns, so that shape
\* (4,4,6) with padding 1 gives n = 2, rows = 3 and a mosaic of shape (16, 11).
C4_RowRule ==
    (mFlat # NoArray /\ ~IsAspectCase(mShape)) =>
        LET pages == Prod(Drop(mShape, 2))
        IN /\ mRows = pages \div DivisorAtLeastFloorSqrt(pages)
           /\ mFlat.shape = << mRows * (mShape[2] + mPad) + mPad,
                               (pages \div mRows) * (mShape[1] + mPad) + mPad >>
           /\ (mShape = <<4, 4, 6>> /\ mPad = 1) =>
                 (mRows = 3 /\ mFlat.shape = <<16, 11>>)

\* the mosaic of the array of shape (4,4,6) was built with padding 1
C4_Witness ==
    mFlat # NoArray /\ mShape = <<4, 4, 6>> /\ mPad = 1 /\ mRows = 3

-----------------------------------------------------------------------------
(* _rows_from_dim applied to bounded shapes *)

\* the sizes of the page dimensions range over 1..MaxRowDim
MaxRowDim == 12

\* shapes of rank 2 to 5; among those of rank 4 are the shapes whose ratio
\* dim2/dim3 is 0.18 (9/50), just above it (10/50), 5.5 (11/2 and 55/10)
\* and just above it (56/10)
RowShapes ==
    {<<2, 3>>}
      \cup {<<1, 1, p>> : p \in 1..MaxRowDim}
      \cup {<<1, 1, a, b>> : a \in 1..MaxRowDim, b \in 1..MaxRowDim}
      \cup {<<1, 1, 9, 50>>, <<1, 1, 10, 50>>, <<1, 1, 55, 10>>,
            <<1, 1, 56, 10>>}
      \cup {<<1, 1, a, b, 2>> : a \in 1..3, b \in 1..3}

InitRows ==
    /\ mShape \in RowShapes
    /\ mPad = 0
    /\ mRows = 0
    /\ mFlat = NoArray
    /\ mClick = <<>>
    /\ mInd = <<>>
    /\ TicksIdle
    /\ RgbIdle
    /\ ViewIdle

\* _rows_from_dim is applied to the shape mShape
ApplyRows ==
    /\ mRows = 0
    /\ mRows' = _rows_from_dim(mShape)
    /\ UNCHANGED <<mShape, mPad, mFlat, mClick, mInd>>
    /\ UNCHANGED <<tickVars, rgbVars, viewVars, loadVars>>

NextRows == ApplyRows

SpecRows == InitRows /\ [][NextRows]_vars

\* C24: for every shape of rank exactly 4 with 0.18 < dim2/dim3 < 5.5
\* (strict on both sides) rows = dim2 and the grid has dim3 tile columns;
\* for the rank-4 shapes outside that open interval and for every other
\* rank rows is pages / n for the first divisor n of pages that the loop
\* from floor(sqrt(pages)) finds; in all cases rows is defined and divides
\* pages exactly.
C24_AspectCase ==
    mRows # 0 =>
        LET pages == Prod(Drop(mShape, 2))
        IN /\ IsAspectCase(mShape) =>
                 (mRows = mShape[3] /\ pages \div mRows = mShape[4])
           /\ ~IsAspectCase(mShape) =>
                 mRows = pages \div DivisorAtLeastFloorSqrt(pages)
           /\ mRows \in 1..pages
           /\ pages % mRows = 0

\* _rows_from_dim has answered for a rank-4 shape in the special case, and
\* the divisor rule would have given another row count
C24_Witness ==
    /\ mRows # 0
    /\ IsAspectCase(mShape)
    /\ mRows = mShape[3]
    /\ mRows # Prod(Drop(mShape, 2))
                 \div DivisorAtLeastFloorSqrt(Prod(Drop(mShape, 2)))

-----------------------------------------------------------------------------
(* Axis label mapper: _setlocator and reformat, Charts.py                  *)
(*                                                                         *)
(* A tick source is [kind, v]: kind "list" with v = <<start, stop, step>>  *)
(* (a Range), kind "array" with v the index list, kind "tuple" with v the  *)
(* cutout shape followed by the mosaic extent.  Locator positions and tick *)
(* values are rationals [n, d] (d > 0); a label is [int, w, f]: the value  *)
(* w + f / 10^5 with 0 <= f < 10^5, handed over as an int or as a float.   *)

\* the bounds of reformat: 1e-5 < np.abs(dat) < 1e5
FmtHi == 100000

\* 1 / 1e-5
FmtLoInv == 100000

\* the scale of the 5 decimals of "{dat:.5f}" and of "{dat:.5e}"
FmtScale == 100000

\* round n / d (d > 0) to the nearest integer, ties to the even one
RoundHalfEven(n, d) ==
    LET q == n \div d
        r == n - q * d
    IN IF 2 * r < d THEN q
       ELSE IF 2 * r > d THEN q + 1
       ELSE IF q % 2 = 0 THEN q ELSE q + 1

RECURSIVE SciScale(_, _)
\* 10^(e - 5) for the decimal exponent e of n / d >= 1e5
SciScale(n, d) ==
    IF n < FmtHi * d * 10 THEN 1 ELSE 10 * SciScale(n \div 10, d)

\* float(reformat(dat)) for dat = n / d
reformat(dat) ==
    LET a == Abs(dat.n)
    IN CASE dat.n = 0 ->
              \* not 1e-5 < 0: "0.00000e+00"
              [int |-> FALSE, w |-> 0, f |-> 0]
         [] a > dat.d \div FmtLoInv /\ a < FmtHi * dat.d ->
              \* "{dat:.5f}": five decimals
              LET w0 == dat.n \div dat.d
                  fr == RoundHalfEven((dat.n - w0 * dat.d) * FmtScale, dat.d)
              IN IF fr = FmtScale
                 THEN [int |-> FALSE, w |-> w0 + 1, f |-> 0]
                 ELSE [int |-> FALSE, w |-> w0, f |-> fr]
         [] a >= FmtHi * dat.d ->
              \* "{dat:.5e}": six significant digits
              LET sc == SciScale(a, dat.d)
              IN [int |-> FALSE, w |-> RoundHalfEven(dat.n, dat.d * sc) * sc,
                  f |-> 0]

RECURSIVE Arange(_, _, _)
\* np.arange(a, b, s) for s > 0
Arange(a, b, s) == IF a >= b THEN <<>> ELSE <<a>> \o Arange(a + s, b, s)

\* the mutant of TickValues: the locator positions are numbered from 0
\* without the shift by one
TickValuesUnshifted(lim, nPad, loc, den) ==
    CASE lim.kind = "list" ->
            [k \in 1..Len(loc) |->
                [n |-> (k - 1) * (loc[3] - loc[2]) * lim.v[3] + lim.v[1] * den,
                 d |-> den]]
      [] lim.kind = "tuple" ->
            LET l == Arange(-lim.v[1] - nPad, lim.v[Len(lim.v)], lim.v[1] + nPad)
            IN [k \in 1..Len(l) |->
                  [n |-> l[k] - ((k - 1) * nPad - nPad), d |-> 1]]
      [] lim.kind = "array" ->
            [k \in 1..Len(lim.v) |-> [n |-> lim.v[k], d |-> 1]]

\* the mutant of TickValues: the distance of the locator positions is
\* taken to be 1
TickValuesUnitStep(lim, nPad, loc, den) ==
    CASE lim.kind = "list" ->
            [k \in 1..Len(loc) |->
                [n |-> ((k - 1) - 1) * den * lim.v[3] + lim.v[1] * den,
                 d |-> den]]
      [] lim.kind = "tuple" ->
            LET l == Arange(-lim.v[1] - nPad, lim.v[Len(lim.v)], lim.v[1] + nPad)
            IN [k \in 1..Len(l) |->
                  [n |-> l[k] - ((k - 1) * nPad - nPad), d |-> 1]]
      [] lim.kind = "array" ->
            [k \in 1..Len(lim.v) |-> [n |-> lim.v[k], d |-> 1]]

\* d of _setlocator: the tick values of the three kinds of tick source
TickValues(lim, nPad, loc, den) ==
    CASE lim.kind = "list" ->
            [k \in 1..Len(loc) |->
                [n |-> ((k - 1) - 1) * (loc[3] - loc[2]) * lim.v[3]
                          + lim.v[1] * den,
                 d |-> den]]
      [] lim.kind = "tuple" ->
            LET l == Arange(-lim.v[1] - nPad, lim.v[Len(lim.v)], lim.v[1] + nPad)
            IN [k \in 1..Len(l) |->
                  [n |-> l[k] - ((k - 1) * nPad - nPad), d |-> 1]]
      [] lim.kind = "array" ->
            [k \in 1..Len(lim.v) |-> [n |-> lim.v[k], d |-> 1]]

\* the tail of _setlocator: integers if every value is one, else reformat
TickLabels(d) ==
    IF \A k \in 1..Len(d) : d[k].n % d[k].d = 0
    THEN [k \in 1..Len(d) |-> [int |-> TRUE, w |-> d[k].n \div d[k].d, f |-> 0]]
    ELSE [k \in 1..Len(d) |-> reformat(d[k])]

\* _setlocator(axis, lim, nPad), loc being what axis.get_major_locator()()
\* returns: [d, labels]
_setlocator(lim, nPad, loc, den) ==
    LET d == TickValues(lim, nPad, loc, den)
    IN [d |-> d, labels |-> TickLabels(d)]

-----------------------------------------------------------------------------
(* _setlocator applied to bounded inputs *)

\* starts and steps of a Range and index-list entries range over
\* -MaxTick..MaxTick
MaxTick == 2
\* a locator returns 3..MaxLocLen positions
MaxLocLen == 4
\* the distance of two locator positions is 1..MaxLocStep over the denominator
MaxLocStep == 2
\* locator positions are multiples of 1/den for den in 1..MaxLocDen
MaxLocDen == 2

TickStarts == (-MaxTick..MaxTick) \cup {FmtHi - 1, FmtHi}

TickSources ==
    {[kind |-> "list", v |-> <<start, -1, step>>] :
        start \in TickStarts, step \in (-MaxTick..MaxTick) \ {0}}
    \cup {[kind |-> "list", v |-> <<1, 4, 2>>]}
    \cup {[kind |-> "array", v |-> v] :
            v \in UNION {[1..n -> -MaxTick..MaxTick] : n \in 0..2}}
    \cup {[kind |-> "tuple", v |-> <<d0, d1, cols * (d0 + 1) + 1>>] :
            d0 \in 1..MaxTick, d1 \in 1..MaxTick, cols \in 1..MaxTick}

\* the mosaic, RGB and plot harnesses are not in use
MosaicIdle ==
    /\ mShape = <<>>
    /\ mPad = 0
    /\ mRows = 0
    /\ mFlat = NoArray
    /\ mClick = <<>>
    /\ mInd = <<>>

InitTicks ==
    /\ tLim \in TickSources
    /\ tPad = IF tLim.kind = "tuple" THEN 1 ELSE 0
    /\ tDen \in 1..MaxLocDen
    /\ \E first \in -MaxTick..MaxTick, step \in 1..MaxLocStep, len \in 3..MaxLocLen :
          tLoc = IF tLim.kind = "list"
                 THEN [k \in 1..len |-> first + (k - 1) * step]
                 ELSE <<>>
    /\ tD = <<>>
    /\ tLabels = <<>>
    /\ tDone = FALSE
    /\ MosaicIdle
    /\ RgbIdle
    /\ ViewIdle

\* _setlocator is applied to the tick source
SetLocator ==
    /\ ~tDone
    /\ tD' = _setlocator(tLim, tPad, tLoc, tDen).d
    /\ tLabels' = _setlocator(tLim, tPad, tLoc, tDen).labels
    /\ tDone' = TRUE
    /\ UNCHANGED <<tLim, tPad, tLoc, tDen>>
    /\ UNCHANGED <<mosaicVars, rgbVars, viewVars, loadVars>>

NextTicks == SetLocator

SpecTicks == InitTicks /\ [][NextTicks]_vars

\* the numerator over tDen of (i - 1) * (loc[2] - loc[1]) * step + start for
\* the i-th locator position, i = k - 1
RangeTickNum(k) ==
    (k - 2) * (tLoc[3] - tLoc[2]) * tLim.v[3] + tLim.v[1] * tDen

\* the label L stands for exactly n / d
LabelIs(L, n, d) ==
    L.w = n \div d /\ (n - L.w * d) * FmtScale = L.f * d

C10_AsStated ==
    (tDone /\ tLim.kind = "list" /\ \A k \in 1..Len(tLabels) : tLabels[k].int) =>
        /\ Len(tLabels) = Len(tLoc)
        /\ \A k \in 1..Len(tLabels) :
              tLabels[k].w = tLim.v[1] + (k - 1) * tLim.v[3]

\* C10 amended: the derived integer tick labels are start - q, start,
\* start + q, start + 2 * q, ... with q = (loc[2] - loc[1]) * step: one label
\* per locator position, the second position labelled start, and consecutive
\* labels q apart.
C10_TickSequence ==
    (tDone /\ tLim.kind = "list" /\ \A k \in 1..Len(tLabels) : tLabels[k].int) =>
        /\ Len(tLabels) = Len(tLoc)
        /\ tLabels[2].w = tLim.v[1] /\ tLabels[2].f = 0
        /\ \A k \in 1..(Len(tLabels) - 1) :
              /\ tLabels[k].f = 0
              /\ (tLabels[k + 1].w - tLabels[k].w) * tDen
                    = (tLoc[3] - tLoc[2]) * tLim.v[3]

\* integer labels were derived for four locator positions two apart
C10_Witness ==
    /\ tDone /\ tLim.kind = "list" /\ Len(tLabels) = 4
    /\ \A k \in 1..Len(tLabels) : tLabels[k].int
    /\ tLoc[3] - tLoc[2] = 2 * tDen
    /\ tLim.v[3] < 0

-----------------------------------------------------------------------------
(* Field texts: a text is a tuple of one-character strings *)

Digits == <<"0", "1", "2", "3", "4", "5", "6", "7", "8", "9">>

IsDigit(c) == \E k \in 1..10 : Digits[k] = c

DigitVal(c) == (CHOOSE k \in 1..10 : Digits[k] = c) - 1

AllDigits(t) == \A k \in 1..Len(t) : IsDigit(t[k])

RECURSIVE NatStr(_)
\* the decimal digits of n >= 0
NatStr(n) ==
    IF n < 10 THEN <<Digits[n + 1]>>
    ELSE NatStr(n \div 10) \o <<Digits[(n % 10) + 1]>>

\* str(n) of an int; also f"{n}"
str(n) == IF n < 0 THEN <<"-">> \o NatStr(-n) ELSE NatStr(n)

RECURSIVE NatVal(_)
\* the number a tuple of digits denotes
NatVal(ds) ==
    IF ds = <<>> THEN 0
    ELSE 10 * NatVal(SubSeq(ds, 1, Len(ds) - 1)) + DigitVal(ds[Len(ds)])

\* a text without its leading sign
Unsigned(t) == IF t # <<>> /\ t[1] \in {"+", "-"} THEN Tail(t) ELSE t

\* int(t) does not raise ValueError: an optional sign and at least one digit
IsInt(t) == Unsigned(t) # <<>> /\ AllDigits(Unsigned(t))

\* int(t) for a text with IsInt(t)
int(t) == IF t[1] = "-" THEN -NatVal(Tail(t)) ELSE NatVal(Unsigned(t))

RECURSIVE split(_, _)
\* t.split(sep) for a one-character separator
split(t, sep) ==
    IF \A k \in 1..Len(t) : t[k] # sep THEN <<t>>
    ELSE LET p == CHOOSE k \in 1..Len(t) :
                      t[k] = sep /\ \A j \in 1..(k - 1) : t[j] # sep
         IN <<SubSeq(t, 1, p - 1)>> \o split(SubSeq(t, p + 1, Len(t)), sep)

RECURSIVE JoinItems(_, _)
\* sep.join(items)
JoinItems(items, sep) ==
    IF items = <<>> THEN <<>>
    ELSE IF Len(items) = 1 THEN items[1]
    ELSE items[1] \o sep \o JoinItems(Tail(items), sep)

\* str(tpl) of a tuple of ints: "()", "(1,)", "(1, 2)"
StrTuple(tpl) ==
    <<"(">> \o JoinItems([k \in 1..Len(tpl) |-> str(tpl[k])], <<",", " ">>)
           \o (IF Len(tpl) = 1 THEN <<",">> ELSE <<>>) \o <<")">>

IsNotSpace(c) == c # " "

\* str(tpl)[1:-1].replace(" ", "")
TupleText(tpl) ==
    SelectSeq(SubSeq(StrTuple(tpl), 2, Len(StrTuple(tpl)) - 1), IsNotSpace)

\* the regular expression of the fields' validator matches the whole text:
\* (?:[+-]?\d+,)+\d*  or  [+-]?\d*(?::|:\+|:-|)\d*(?::|:\+|:-|)\d*
ValidatorAccepts(t) ==
    LET items == split(t, ",")
        parts == split(t, ":")
    IN \/ /\ Len(items) >= 2
          /\ \A k \in 1..(Len(items) - 1) : IsInt(items[k])
          /\ AllDigits(items[Len(items)])
       \/ /\ Len(parts) <= 3
          /\ \A k \in 1..Len(parts) : AllDigits(Unsigned(parts[k]))

-----------------------------------------------------------------------------
(* Slice entries: what singleShape.get_value returns for one field *)

IntEntry(n) == [kind |-> "int", n |-> n]

TupleEntry(t) == [kind |-> "tuple", t |-> t]

SliceEntry(a, b, c) == [kind |-> "slice", start |-> a, stop |-> b, step |-> c]

\* the mutant of clipint: the upper end of the interval is maxt
ClipIntInclusive(x, maxt) == Min(Max(-maxt, int(x)), maxt)

\* clipint(x) of get_value, maxt being int(self.label.text())
clipint(x, maxt) == Min(Max(-maxt, int(x)), maxt - 1)

RECURSIVE FromKeysLast(_)
\* the mutant of FromKeys: the last occurrence of a value is the one kept
FromKeysLast(s) ==
    IF s = <<>> THEN <<>>
    ELSE LET rest == FromKeysLast(Tail(s))
         IN IF \E k \in 1..Len(rest) : rest[k] = s[1] THEN rest
            ELSE <<s[1]>> \o rest

RECURSIVE FromKeys(_)
\* tuple(dict.fromkeys(s)): every value once, in first-occurrence order
FromKeys(s) ==
    IF s = <<>> THEN <<>>
    ELSE LET init == FromKeys(SubSeq(s, 1, Len(s) - 1))
             x    == s[Len(s)]
         IN IF \E k \in 1..Len(init) : init[k] = x THEN init
            ELSE Append(init, x)

IsNotEmpty(t) == t # <<>>

\* "int(x) if x else None" for a part of a colon-separated text
PartValue(x) == IF x = <<>> THEN None ELSE Some(int(x))

\* slice(*args) for one, two or three arguments
slice(args) ==
    IF Len(args) = 1 THEN SliceEntry(None, args[1], None)
    ELSE IF Len(args) = 2 THEN SliceEntry(args[1], args[2], None)
    ELSE SliceEntry(args[1], args[2], args[3])

\* what get_value returns
Value(val, isScalar, text) ==
    [exc |-> NoExc, val |-> val, isScalar |-> isScalar, text |-> text]

\* get_value is left by an exception: the field keeps its text
ValueExc(type, text) ==
    [exc |-> Raised(type, "get_value"), val |-> IntEntry(0),
     isScalar |-> FALSE, text |-> text]

\* txt = str(clipint(txt)); setText(txt); return int(txt), True
ScalarValue(txt) == Value(IntEntry(int(txt)), TRUE, txt)

\* tpl = tuple(dict.fromkeys(...)); setText(...); return tpl, False
ListValue(tpl) == Value(TupleEntry(tpl), FALSE, TupleText(tpl))

\* the branch of get_value for a text with a comma, items being the
\* non-empty parts of txt.split(',')
ListBranch(txt, items, maxt) ==
    IF \E k \in 1..Len(items) : ~IsInt(items[k])
    THEN ValueExc("ValueError", txt)
    ELSE ListValue(FromKeys([k \in 1..Len(items) |-> clipint(items[k], maxt)]))

\* the last branch of get_value, parts being txt.split(':')
SliceBranch(txt, parts) ==
    IF \E k \in 1..Len(parts) : parts[k] # <<>> /\ ~IsInt(parts[k])
    THEN ValueExc("ValueError", txt)
    ELSE IF Len(parts) > 3 THEN ValueExc("TypeError", txt)
    ELSE Value(slice([k \in 1..Len(parts) |-> PartValue(parts[k])]), FALSE, txt)

\* singleShape.get_value for the field text txt under the label text label:
\* the value, the isScalar flag, the text the field is left with and the
\* exception that leaves the method
get_value(txt, label) ==
    IF IsInt(txt) THEN ScalarValue(str(clipint(txt, int(label))))
    ELSE IF \E k \in 1..Len(txt) : txt[k] = ","
    THEN ListBranch(txt, SelectSeq(split(txt, ","), IsNotEmpty), int(label))
    ELSE SliceBranch(txt, split(txt, ":"))

\* one turn of the loop of get_shape: r is what get_value returned for the
\* k-th widget
GetShapeStep(prev, r, k) ==
    IF prev.exc # NoExc THEN prev
    ELSE IF r.exc # NoExc THEN [prev EXCEPT !.exc = r.exc]
    ELSE [exc |-> NoExc,
          fields |-> [prev.fields EXCEPT ![k] = r.text],
          shapeStr |-> Append(prev.shapeStr, r.val),
          scalarDims |-> IF r.isScalar THEN Append(prev.scalarDims, k - 1)
                         ELSE prev.scalarDims]

RECURSIVE GetShapeUpTo(_, _, _)
\* the loop of get_shape over the first k widgets
GetShapeUpTo(fields, labels, k) ==
    IF k = 0
    THEN [exc |-> NoExc, fields |-> fields, shapeStr |-> <<>>,
          scalarDims |-> <<>>]
    ELSE GetShapeStep(GetShapeUpTo(fields, labels, k - 1),
                      get_value(fields[k], labels[k]), k)

\* ShapeSelector.get_shape: the entries, the scalar dimensions (0-based),
\* the field texts as the get_value calls leave them
get_shape(fields, labels) == GetShapeUpTo(fields, labels, Len(fields))

-----------------------------------------------------------------------------
(* Indexing, squeeze, reductions: numpy as GraphWidget uses it *)

\* range(a, b, c) for c # 0
PyRange(a, b, c) ==
    IF c > 0
    THEN [k \in 1..Max(0, (b - a + c - 1) \div c) |-> a + (k - 1) * c]
    ELSE [k \in 1..Max(0, (a - b - c - 1) \div (-c)) |-> a + (k - 1) * c]

\* a start or stop of a slice brought into the bounds of an axis of size n
SliceBound(v, n, lower, upper) ==
    IF v < 0 THEN Max(v + n, lower) ELSE Min(v, upper)

\* the source indices sl selects on an axis of size n (slice.indices(n));
\* the step of sl is not 0
SliceIndices(sl, n) ==
    LET step  == IF sl.step = None THEN 1 ELSE sl.step[1]
        lower == IF step < 0 THEN -1 ELSE 0
        upper == IF step < 0 THEN n - 1 ELSE n
        start == IF sl.start = None
                 THEN (IF step < 0 THEN upper ELSE lower)
                 ELSE SliceBound(sl.start[1], n, lower, upper)
        stop  == IF sl.stop = None
                 THEN (IF step < 0 THEN lower ELSE upper)
                 ELSE SliceBound(sl.stop[1], n, lower, upper)
    IN PyRange(start, stop, step)

\* an index i of -n..n-1 counted from the front
WrapIndex(i, n) == IF i < 0 THEN i + n ELSE i

\* the exception indexing an axis of size n with the entry raises, if any
IndexExc(entry, n) ==
    IF entry.kind = "slice"
    THEN IF entry.step = Some(0)
         THEN Raised("ValueError", "renew_cutout") ELSE NoExc
    ELSE IF entry.kind = "int"
    THEN IF entry.n < -n \/ entry.n >= n
         THEN Raised("IndexError", "renew_cutout") ELSE NoExc
    ELSE IF \E k \in 1..Len(entry.t) : entry.t[k] < -n \/ entry.t[k] >= n
         THEN Raised("IndexError", "renew_cutout") ELSE NoExc

\* the source indices the entry selects on an axis of size n, in order
Selected(entry, n) ==
    IF entry.kind = "slice" THEN SliceIndices(entry, n)
    ELSE IF entry.kind = "int" THEN <<WrapIndex(entry.n, n)>>
    ELSE [k \in 1..Len(entry.t) |-> WrapIndex(entry.t[k], n)]

\* the positions of the tuple s that hold no member of the set out
KeptPositions(s, out) ==
    LET P == {k \in 1..Len(s) : s[k] \notin out}
    IN [j \in 1..Cardinality(P) |->
          CHOOSE k \in P : Cardinality({q \in P : q < k}) = j - 1]

\* the array of the elements the entries select: kept are the dimensions
\* whose entry is no int, sel the source indices selected on every dimension
IndexWith(s, kept, sel) ==
    [shape |-> [j \in 1..Len(kept) |-> Len(sel[kept[j]])],
     at |-> [ix \in Idx([j \in 1..Len(kept) |-> Len(sel[kept[j]])]) |->
               {[d \in 1..Len(s) |->
                   IF s[d].kind = "int" THEN sel[d][1]
                   ELSE sel[d][ix[CHOOSE j \in 1..Len(kept) : kept[j] = d] + 1]]}]]

\* data.take(tuple, axis) for every tuple entry, then data[tuple(newslice)]:
\* an int entry removes its axis, every other entry keeps it
IndexArray(shape, s) ==
    IndexWith(s, KeptPositions([d \in 1..Len(s) |-> s[d].kind], {"int"}),
              [d \in 1..Len(s) |-> Selected(s[d], shape[d])])

\* the array A without the axes that are not in kept; those have size 1
SqueezeTo(A, kept) ==
    [shape |-> [j \in 1..Len(kept) |-> A.shape[kept[j]]],
     at |-> [ix \in Idx([j \in 1..Len(kept) |-> A.shape[kept[j]]]) |->
               A.at[[p \in 1..Len(A.shape) |->
                       IF A.shape[p] = 1 THEN 0
                       ELSE ix[CHOOSE j \in 1..Len(kept) : kept[j] = p]]]]]

\* A.squeeze(): every axis of size 1 is removed
squeeze(A) == SqueezeTo(A, KeptPositions(A.shape, {1}))

\* the first exception of the tuple excs, NoExc if there is none
FirstExc(excs) ==
    IF \A d \in 1..Len(excs) : excs[d] = NoExc THEN NoExc
    ELSE excs[CHOOSE d \in 1..Len(excs) :
                 excs[d] # NoExc /\ \A e \in 1..(d - 1) : excs[e] = NoExc]

\* the cutout, unless indexing raised
CutoutUnless(e, shape, s) ==
    IF e # NoExc THEN [exc |-> e, cutout |-> NoArray]
    ELSE [exc |-> NoExc, cutout |-> squeeze(IndexArray(shape, s))]

\* GraphWidget.renew_cutout: the new cutout, or the exception numpy raises
renew_cutout(shape, s) ==
    CutoutUnless(FirstExc([d \in 1..Len(s) |-> IndexExc(s[d], shape[d])]),
                 shape, s)

\* np.swapaxes(A, 0, 1) for an array of rank > 1
swapaxes01(A) ==
    LET sw(s) == <<s[2], s[1]>> \o Drop(s, 2)
    IN [shape |-> sw(A.shape),
        at |-> [ix \in Idx(sw(A.shape)) |-> A.at[sw(ix)]]]

\* the names of the operations dictionary of GraphWidget.set_operation
Operations == {"nanmin", "nanmax", "nanmean", "nanmedian"}

\* the array A reduced to the axes kept
ReduceTo(A, kept) ==
    [shape |-> [j \in 1..Len(kept) |-> A.shape[kept[j]]],
     at |-> [ix \in Idx([j \in 1..Len(kept) |-> A.shape[kept[j]]]) |->
               UNION {A.at[jx] : jx \in
                        {y \in Idx(A.shape) :
                           \A j \in 1..Len(kept) : y[kept[j]] = ix[j]}}]]

\* operations[name](A, axis = axes) for a tuple of 0-based axes: an element
\* of the result is computed from every element along the reduced axes
Reduce(name, A, axes) ==
    IF \E k \in 1..Len(axes) : axes[k] >= Len(A.shape)
    THEN [exc |-> Raised("AxisError", "_opr"), cutout |-> NoArray]
    ELSE IF name \in {"nanmin", "nanmax"}
            /\ \E k \in 1..Len(axes) : A.shape[axes[k] + 1] = 0
    THEN [exc |-> Raised("ValueError", "_opr"), cutout |-> NoArray]
    ELSE [exc |-> NoExc,
          cutout |-> ReduceTo(A, KeptPositions(
                                   [p \in 1..Len(A.shape) |-> p - 1],
                                   {axes[k] : k \in 1..Len(axes)}))]

-----------------------------------------------------------------------------
(* GraphWidget *)

\* "x or d" for an int or None x
OrElse(x, d) == IF x = None \/ x = Some(0) THEN d ELSE x[1]

\* the tick source _set_ticks derives from one entry of _tick_str[1]
TickSource(n) ==
    IF n.kind = "slice"
    THEN [kind |-> "list",
          v |-> <<OrElse(n.start, 0), OrElse(n.stop, -1), OrElse(n.step, 1)>>]
    ELSE IF n.kind = "int"
    THEN [kind |-> "list", v |-> <<OrElse(Some(n.n), 0),
                                   OrElse(Some(n.n + 1), -1), 1>>]
    ELSE [kind |-> "array", v |-> n.t]

\* GraphWidget._set_ticks(transp): the new self.ticks, or the IndexError of
\* the exchange of ticks[0] and ticks[1]
_set_ticks(s_mod, transp, checked) ==
    LET t == [k \in 1..Len(s_mod) |-> TickSource(s_mod[k])]
    IN IF transp /\ checked
       THEN IF Len(t) < 2
            THEN [exc |-> Raised("IndexError", "_set_ticks"), ticks |-> t]
            ELSE [exc |-> NoExc,
                  ticks |-> [t EXCEPT ![1] = t[2], ![2] = t[1]]]
       ELSE [exc |-> NoExc, ticks |-> t]

\* more lines than this are not plotted (unless the 'unsave' option is set)
MaxLines == 500

\* the last axis of an RGB or RGBA cutout
RgbSizes == {3, 4}

\* the padding _n_D_plot hands to _flat_with_padding
PadPer == 100

\* a renderer that calls _set_ticks has drawn: tk is what _set_ticks did
PlotDrawn(G, kind, dat, tk) ==
    [exc |-> tk.exc,
     G |-> [G EXCEPT !.shown = ShownImage(kind, dat), !.ticks = tk.ticks]]

\* a renderer that leaves self.ticks alone has drawn, or none has
PlotShown(G, kind) == [exc |-> NoExc, G |-> [G EXCEPT !.shown = Shown(kind)]]

\* the mutant of plot: MaxLines lines are too many already
PlotLinesFrom(G, Tr, o) ==
    IF \E k \in 1..Len(G.cutout.shape) : G.cutout.shape[k] = 0
    THEN PlotShown(G, "cleared")
    ELSE IF Len(G.cutout.shape) = 0 \/ o.PrintFlat THEN PlotShown(G, "text")
    ELSE IF Len(G.cutout.shape) = 1
    THEN PlotDrawn(G, "line", NoArray, _set_ticks(G._tick_str.s_mod, FALSE, Tr))
    ELSE IF Len(G.cutout.shape) = 2 /\ o.Plot2D
    THEN IF G.cutout.shape[2] >= MaxLines /\ ~o.unsave
         THEN PlotShown(G, "warned")
         ELSE PlotDrawn(G, "lines", G.cutout,
                        _set_ticks(G._tick_str.s_mod, TRUE, Tr))
    ELSE IF Len(G.cutout.shape) = 2 /\ o.PlotScat /\ G.cutout.shape[2] <= 4
    THEN PlotShown(G, "scatter")
    ELSE IF Len(G.cutout.shape) = 2 /\ o.MMM
    THEN PlotDrawn(G, "mmm", NoArray, _set_ticks(G._tick_str.s_mod, TRUE, Tr))
    ELSE IF Len(G.cutout.shape) = 2
    THEN PlotDrawn(G, "image", T_(G.cutout),
                   _set_ticks(G._tick_str.s_mod, TRUE, Tr))
    ELSE IF o.Plot3D /\ Len(G.cutout.shape) = 3 /\ G.cutout.shape[3] \in RgbSizes
    THEN PlotDrawn(G, "rgb", swapaxes01(G.cutout),
                   _set_ticks(G._tick_str.s_mod, TRUE, Tr))
    ELSE PlotDrawn(G, "mosaic",
                   _flat_with_padding(G.cutout,
                                      G.cutout.shape[1] \div PadPer + 1, Nan),
                   _set_ticks(G._tick_str.s_mod, TRUE, Tr))

\* the mutant of plot: the max/mean/min lines come before the scatter
PlotMmmFirst(G, Tr, o) ==
    IF \E k \in 1..Len(G.cutout.shape) : G.cutout.shape[k] = 0
    THEN PlotShown(G, "cleared")
    ELSE IF Len(G.cutout.shape) = 0 \/ o.PrintFlat THEN PlotShown(G, "text")
    ELSE IF Len(G.cutout.shape) = 1
    THEN PlotDrawn(G, "line", NoArray, _set_ticks(G._tick_str.s_mod, FALSE, Tr))
    ELSE IF Len(G.cutout.shape) = 2 /\ o.Plot2D
    THEN IF G.cutout.shape[2] > MaxLines /\ ~o.unsave
         THEN PlotShown(G, "warned")
         ELSE PlotDrawn(G, "lines", G.cutout,
                        _set_ticks(G._tick_str.s_mod, TRUE, Tr))
    ELSE IF Len(G.cutout.shape) = 2 /\ o.MMM
    THEN PlotDrawn(G, "mmm", NoArray, _set_ticks(G._tick_str.s_mod, TRUE, Tr))
    ELSE IF Len(G.cutout.shape) = 2 /\ o.PlotScat /\ G.cutout.shape[2] <= 4
    THEN PlotShown(G, "scatter")
    ELSE IF Len(G.cutout.shape) = 2
    THEN PlotDrawn(G, "image", T_(G.cutout),
                   _set_ticks(G._tick_str.s_mod, TRUE, Tr))
    ELSE IF o.Plot3D /\ Len(G.cutout.shape) = 3 /\ G.cutout.shape[3] \in RgbSizes
    THEN PlotDrawn(G, "rgb", swapaxes01(G.cutout),
                   _set_ticks(G._tick_str.s_mod, TRUE, Tr))
    ELSE PlotDrawn(G, "mosaic",
                   _flat_with_padding(G.cutout,
                                      G.cutout.shape[1] \div PadPer + 1, Nan),
                   _set_ticks(G._tick_str.s_mod, TRUE, Tr))

\* GraphWidget.plot: the graph after one plot step.  G.cutout is the cutout
\* to plot; Tr is Transp.isChecked(), o the checked options of the Plot menu
plot(G, Tr, o) ==
    IF \E k \in 1..Len(G.cutout.shape) : G.cutout.shape[k] = 0
    THEN PlotShown(G, "cleared")
    ELSE IF Len(G.cutout.shape) = 0 \/ o.PrintFlat THEN PlotShown(G, "text")
    ELSE IF Len(G.cutout.shape) = 1
    THEN PlotDrawn(G, "line", NoArray, _set_ticks(G._tick_str.s_mod, FALSE, Tr))
    ELSE IF Len(G.cutout.shape) = 2 /\ o.Plot2D
    THEN IF G.cutout.shape[2] > MaxLines /\ ~o.unsave
         THEN PlotShown(G, "warned")
         ELSE PlotDrawn(G, "lines", G.cutout,
                        _set_ticks(G._tick_str.s_mod, TRUE, Tr))
    ELSE IF Len(G.cutout.shape) = 2 /\ o.PlotScat /\ G.cutout.shape[2] <= 4
    THEN PlotShown(G, "scatter")
    ELSE IF Len(G.cutout.shape) = 2 /\ o.MMM
    THEN PlotDrawn(G, "mmm", NoArray, _set_ticks(G._tick_str.s_mod, TRUE, Tr))
    ELSE IF Len(G.cutout.shape) = 2
    THEN PlotDrawn(G, "image", T_(G.cutout),
                   _set_ticks(G._tick_str.s_mod, TRUE, Tr))
    ELSE IF o.Plot3D /\ Len(G.cutout.shape) = 3 /\ G.cutout.shape[3] \in RgbSizes
    THEN PlotDrawn(G, "rgb", swapaxes01(G.cutout),
                   _set_ticks(G._tick_str.s_mod, TRUE, Tr))
    ELSE PlotDrawn(G, "mosaic",
                   _flat_with_padding(G.cutout,
                                      G.cutout.shape[1] \div PadPer + 1, Nan),
                   _set_ticks(G._tick_str.s_mod, TRUE, Tr))

\* the mutant of OprCorr: the scalar dimensions below an operation dimension
\* are not counted
OprCorrUnshifted(oprdim, scalDims) ==
    LET a == KeptPositions(oprdim, {scalDims[k] : k \in 1..Len(scalDims)})
    IN [j \in 1..Len(a) |-> oprdim[a[j]]]

\* the axis tuple of renewPlot: a = np.setdiff1d(self._oprdim, scalDims),
\* tuple(b - (scalDims <= b).sum() for b in a)
OprCorr(oprdim, scalDims) ==
    LET a == KeptPositions(oprdim, {scalDims[k] : k \in 1..Len(scalDims)})
    IN [j \in 1..Len(a) |->
          oprdim[a[j]]
            - Cardinality({k \in 1..Len(scalDims) : scalDims[k] <= oprdim[a[j]]})]

\* self._opr(x): the identity, or the selected reduction over self._oprcorr
_opr(G, x, axes) ==
    IF G._opr = "None" THEN [exc |-> NoExc, cutout |-> x]
    ELSE Reduce(G._opr, x, axes)

\* renewPlot after plot, pl being what plot returned or raised:
\* reapply_setup gives the artists a picker and replaces the annotation by
\* an invisible one
Reannotated(pl) ==
    IF pl.exc # NoExc THEN pl
    ELSE [pl EXCEPT !.G.annotation = FALSE, !.G.picker = TRUE]

\* the end of renewPlot: the first two axes are exchanged if it is chosen,
\* then the cutout is plotted
RenewTransposed(G, Tr, o) ==
    Reannotated(
      plot([G EXCEPT !.cutout = IF Tr /\ Len(G.cutout.shape) > 1
                                THEN swapaxes01(G.cutout) ELSE G.cutout],
           Tr, o))

\* renewPlot after self.cutout = self._opr(self.cutout): red is what the
\* call returned or raised
RenewAfterOpr(G, red, Tr, o) ==
    IF red.exc # NoExc THEN [exc |-> red.exc, G |-> G]
    ELSE RenewTransposed([G EXCEPT !.cutout = red.cutout], Tr, o)

\* len(self._oprdim) and not all(np.isin(self._oprdim, scalDims))
HasOprDim(oprdim, scalDims) ==
    /\ Len(oprdim) > 0
    /\ ~(\A k \in 1..Len(oprdim) :
            \E j \in 1..Len(scalDims) : scalDims[j] = oprdim[k])

\* renewPlot after renew_cutout: rc is what the call returned or raised
RenewAfterCutout(G, rc, scalDims, Tr, o) ==
    IF rc.exc # NoExc THEN [exc |-> rc.exc, G |-> G]
    ELSE IF HasOprDim(G._oprdim, scalDims)
    THEN RenewAfterOpr([G EXCEPT !.cutout = rc.cutout,
                                 !._oprcorr = Axes(OprCorr(G._oprdim, scalDims))],
                       _opr(G, rc.cutout, OprCorr(G._oprdim, scalDims)), Tr, o)
    ELSE RenewTransposed([G EXCEPT !.cutout = rc.cutout, !._oprcorr = NoAxes],
                         Tr, o)

\* s_mod = tuple(s[i] for i in non_scalar_idx)
NonScalar(s, non_scalar_idx) ==
    [k \in 1..Len(non_scalar_idx) |-> s[non_scalar_idx[k]]]

\* GraphWidget.renewPlot(s, scalDims) for an ndarray of the given shape
renewPlot(G, shape, s, scalDims, Tr, o) ==
    IF shape[1] = 0
    THEN [exc |-> Raised("IndexError", "renewPlot"),
          G |-> [G EXCEPT !.shown = Shown("cleared"), !.picker = FALSE,
                          !._anim_timer = FALSE]]
    ELSE RenewAfterCutout(
           [G EXCEPT !.shown = Shown("cleared"), !.picker = FALSE,
                     !._anim_timer = FALSE,
                     !._tick_str =
                        [scalDims |-> scalDims,
                         s_mod |-> NonScalar(s, KeptPositions(
                                      [d \in 1..Len(shape) |-> d - 1],
                                      {scalDims[k] : k \in 1..Len(scalDims)}))]],
           renew_cutout(shape, s), scalDims, Tr, o)

\* GraphWidget.set_operation(operation): the graph and the returned _oprdim
set_operation(G, operation) ==
    IF operation = "None"
    THEN [G |-> [G EXCEPT !.has_operation = FALSE, !._oprdim = <<>>,
                          !._opr = "None"],
          ret |-> <<>>]
    ELSE [G |-> [G EXCEPT !.has_operation = TRUE, !._opr = operation],
          ret |-> G._oprdim]

\* np.setxor1d(oprdim, value): value leaves the sorted tuple if it is a
\* member and enters it at its place if it is not
setxor1d(oprdim, value) ==
    LET S == {oprdim[k] : k \in 1..Len(oprdim)}
        X == (S \ {value}) \cup ({value} \ S)
    IN [j \in 1..Cardinality(X) |->
          CHOOSE v \in X : Cardinality({w \in X : w < v}) = j - 1]

\* GraphWidget.set_oprdim(value) for a dimension or -1
set_oprdim(G, value) ==
    LET od == IF value = -1 THEN <<>> ELSE setxor1d(G._oprdim, value)
    IN [G |-> [G EXCEPT !._oprdim = od],
        ret |-> IF G.has_operation THEN od ELSE <<>>]

-----------------------------------------------------------------------------
(* ViewerWindow and ShapeSelector handlers *)

\* the key of the one dataset of the tree: '/'.join(self.cText)
_slice_key == cText

\* self.slices[key] = curr_slice
SlicesPut(sl, key, curr_slice) ==
    {p \in sl : p[1] # key} \cup {<<key, curr_slice>>}

\* _draw_data after renewPlot: rp is what the call returned or raised
DrawnWith(S, gs, rp) ==
    [exc |-> rp.exc, S |-> [S EXCEPT !.fields = gs.fields], G |-> rp.G,
     passed |-> Passed(gs.shapeStr, gs.scalarDims)]

\* _draw_data after get_shape: gs is what the call returned or raised
DrawParsed(S, G, shape, Tr, o, gs) ==
    IF gs.exc # NoExc
    THEN [exc |-> gs.exc, S |-> [S EXCEPT !.fields = gs.fields], G |-> G,
          passed |-> NotPassed]
    ELSE DrawnWith(S, gs,
                   renewPlot(G, shape, gs.shapeStr, gs.scalarDims, Tr, o))

\* ViewerWindow._draw_data: the fields are parsed by get_shape and the
\* result is handed to renewPlot
_draw_data(S, G, shape, Tr, o) ==
    DrawParsed(S, G, shape, Tr, o, get_shape(S.fields, S.labels))

\* the texts update_shape puts into the fields of new data: the first two
\* dimensions are shown, the others start at 0
DefaultFields(shape) ==
    [n \in 1..Len(shape) |-> IF n - 1 > 1 THEN <<"0">> ELSE <<>>]

\* ShapeSelector.update_shape(shape) for data without a stored slice
update_shape(S, G, shape, Tr, o) ==
    _draw_data([labels |-> [n \in 1..Len(shape) |-> str(shape[n])],
                fields |-> DefaultFields(shape),
                operation_state |-> <<>>,
                animation_state |-> S.animation_state],
               G, shape, Tr, o)

RECURSIVE MapTicks(_, _, _)
\* the loop of onclick over self.ticks, from the i-th tick source on
MapTicks(xyz, ticks, i) ==
    IF i > Len(ticks) THEN [exc |-> NoExc, xyz |-> xyz]
    ELSE IF ticks[i].kind = "list"
    THEN IF i > Len(xyz) THEN [exc |-> Raised("IndexError", "onclick"),
                               xyz |-> xyz]
         ELSE MapTicks([xyz EXCEPT ![i] = ticks[i].v[3] * xyz[i] + ticks[i].v[1]],
                       ticks, i + 1)
    ELSE IF i > Len(xyz) \/ xyz[i] >= Len(ticks[i].v)
    THEN MapTicks(xyz, ticks, i + 1)
    ELSE MapTicks([xyz EXCEPT ![i] = ticks[i].v[xyz[i] + 1]], ticks, i + 1)

\* the padding onclick leaves to the default of _unravel_flat_with_padding
DefaultPad == 1

\* onclick for a pick on the image at the pixel (x, y): the source
\* coordinates handed on, or the exception that ends the handler
onclick(G, x, y) ==
    LET xyz == IF Len(G.ticks) > 2
               THEN _unravel_flat_with_padding(<<x, y>>, G.cutout.shape,
                                               DefaultPad)
               ELSE <<x, y>>
    IN IF G.shown.kind = "rgb"
       THEN [exc |-> Raised("ValueError", "reformat"), xyz |-> <<x, y>>]
       ELSE MapTicks(xyz, G.ticks, 1)

\* the loop of set_non_scalar_values: the fields of the dimensions that are
\* not in scalar_dims take the new values in turn
NewFields(fields, scalar_dims, new_values) ==
    [n \in 1..Len(fields) |->
       IF \E k \in 1..Len(scalar_dims) : scalar_dims[k] = n - 1
       THEN fields[n]
       ELSE str(new_values[
              Cardinality({m \in 1..n :
                  \A k \in 1..Len(scalar_dims) : scalar_dims[k] # m - 1})])]

\* set_non_scalar_values after get_shape: gs is what the call returned
SetNonScalar(S, G, shape, Tr, o, new_values, gs) ==
    IF gs.exc # NoExc
    THEN [exc |-> gs.exc, S |-> [S EXCEPT !.fields = gs.fields], G |-> G,
          passed |-> NotPassed]
    ELSE IF Len(gs.shapeStr) - Len(gs.scalarDims \o S.operation_state)
              # Len(new_values)
    THEN [exc |-> NoExc, S |-> [S EXCEPT !.fields = gs.fields], G |-> G,
          passed |-> NotPassed]
    ELSE _draw_data([S EXCEPT !.fields =
                       NewFields(gs.fields, gs.scalarDims \o S.operation_state,
                                 new_values)],
                    G, shape, Tr, o)

\* ShapeSelector.set_non_scalar_values(new_values)
set_non_scalar_values(S, G, shape, Tr, o, new_values) ==
    SetNonScalar(S, G, shape, Tr, o, new_values, get_shape(S.fields, S.labels))

\* onclick with Shift: in animation mode it returns at once; oc is what
\* the translation of the click gave
ShiftClicked(S, G, shape, Tr, o, oc) ==
    IF G._anim_dim # None
    THEN [exc |-> NoExc, S |-> S, G |-> G, passed |-> NotPassed]
    ELSE IF oc.exc # NoExc
    THEN [exc |-> oc.exc, S |-> S, G |-> G, passed |-> NotPassed]
    ELSE set_non_scalar_values(S, G, shape, Tr, o, oc.xyz)

\* onclick for a pick on a line at the point idx of its x data
OnclickLine(G, idx) ==
    IF Len(G.ticks) > 2
    THEN [exc |-> Raised("IndexError", "_unravel_flat_with_padding"),
          xyz |-> <<idx>>]
    ELSE MapTicks(<<idx>>, G.ticks, 1)

\* onclick without a modifier key: in animation mode it returns at once;
\* else the annotation of the clicked location is shown, or hidden if the
\* location was clicked last.  oc is what the translation of the click gave
Clicked(S, G, oc) ==
    IF G._anim_dim # None
    THEN [exc |-> NoExc, S |-> S, G |-> G, passed |-> NotPassed]
    ELSE IF oc.exc # NoExc
    THEN [exc |-> oc.exc, S |-> S, G |-> G, passed |-> NotPassed]
    ELSE [exc |-> NoExc, S |-> S,
          G |-> [G EXCEPT !.annotation = (G.last_clicked # Some(oc.xyz)),
                          !.last_clicked = IF G.last_clicked = Some(oc.xyz)
                                           THEN None ELSE Some(oc.xyz)],
          passed |-> NotPassed]

-----------------------------------------------------------------------------
(* Animation: GraphWidget.start_animation, stop_animation, _animate and    *)
(* ShapeSelector.change_animation_state                                    *)

\* the tuple s without its p-th entry
RemoveAt(s, p) ==
    [j \in 1..(Len(s) - 1) |-> IF j < p THEN s[j] ELSE s[j + 1]]

\* the tuple s with v put in as its p-th entry
InsertAt(s, p, v) ==
    [j \in 1..(Len(s) + 1) |->
       IF j < p THEN s[j] ELSE IF j = p THEN v ELSE s[j - 1]]

\* A.take(k, axis) for an int k: the axis is removed
take(A, k, axis) ==
    [shape |-> RemoveAt(A.shape, axis + 1),
     at |-> [ix \in Idx(RemoveAt(A.shape, axis + 1)) |->
               A.at[InsertAt(ix, axis + 1, k)]]]

\* GraphWidget.stop_animation
stop_animation(G) ==
    [G EXCEPT !._anim_dim = None, !._anim_timer = FALSE,
              !.cutout = IF G._anim_timer THEN G._anim_cutout ELSE G.cutout]

\* GraphWidget._animate: one animation step
_animate(G, Tr, o) ==
    IF G._anim_dim = None
    THEN [exc |-> Raised("TypeError", "_animate"), G |-> G]
    ELSE IF G._anim_dim[1] >= Len(G._anim_cutout.shape)
    THEN [exc |-> NoExc, G |-> stop_animation(G)]
    ELSE IF G._anim_cutout.shape[G._anim_dim[1] + 1] = 0
    THEN [exc |-> Raised("ZeroDivisionError", "_animate"), G |-> G]
    ELSE plot([G EXCEPT
                 !._anim_step =
                    (G._anim_step + 1) % G._anim_cutout.shape[G._anim_dim[1] + 1],
                 !.cutout =
                    take(G._anim_cutout,
                         (G._anim_step + 1) % G._anim_cutout.shape[G._anim_dim[1] + 1],
                         G._anim_dim[1]),
                 !.picker = FALSE],
              Tr, o)

\* start_animation after self._animate(): an is what it returned or raised
AnimateFirst(an) == [exc |-> an.exc, G |-> an.G, ret |-> an.exc = NoExc]

\* start_animation after self.plot(): pl is what plot returned or raised
StartAnimated(pl, Tr, o) ==
    IF pl.exc # NoExc THEN [exc |-> pl.exc, G |-> pl.G, ret |-> FALSE]
    ELSE AnimateFirst(_animate(pl.G, Tr, o))

\* start_animation from self._anim_dim = ... on
StartAnimation(G, dim, Tr, o) ==
    StartAnimated(
      plot([G EXCEPT
              !._anim_dim =
                 Some(dim - Cardinality({k \in 1..Len(G._tick_str.scalDims) :
                                           G._tick_str.scalDims[k] < dim})),
              !._anim_step = 0, !._anim_cutout = G.cutout,
              !._anim_timer = TRUE, !.picker = FALSE],
           Tr, o),
      Tr, o)

\* GraphWidget.start_animation(dim) for an ndarray of the given shape: a
\* dimension that is scalar is not animated, an operation dimension leaves
\* self._oprdim and self.cutout becomes the array
start_animation(G, dim, shape, Tr, o) ==
    IF dim \in {G._tick_str.scalDims[k] : k \in 1..Len(G._tick_str.scalDims)}
    THEN [exc |-> NoExc, G |-> G, ret |-> FALSE]
    ELSE IF dim \in {G._oprdim[k] : k \in 1..Len(G._oprdim)}
    THEN StartAnimation([G EXCEPT !._oprdim = setxor1d(G._oprdim, dim),
                                  !.cutout = SourceArr(shape)],
                        dim, Tr, o)
    ELSE StartAnimation(G, dim, Tr, o)

\* change_animation_state after start_animation: sa is what it returned or
\* raised
AnimationStarted(S, sa) ==
    [exc |-> sa.exc, S |-> S, G |-> sa.G, passed |-> NotPassed]

\* change_animation_state(index) after the animation that was running, if
\* any, has been stopped
AnimationChanged(S, G, index, shape, Tr, o) ==
    IF S.animation_state = index
    THEN _draw_data([S EXCEPT !.animation_state = -1], G, shape, Tr, o)
    ELSE AnimationStarted([S EXCEPT !.animation_state = index],
                          start_animation(G, index, shape, Tr, o))

\* ShapeSelector.change_animation_state(index)
change_animation_state(S, G, index, shape, Tr, o) ==
    AnimationChanged(S,
                     IF S.animation_state # -1 THEN stop_animation(G) ELSE G,
                     index, shape, Tr, o)

-----------------------------------------------------------------------------
(* One array in the viewer: the user edits fields, clicks labels, selects  *)
(* an operation, toggles Transp and Shift-clicks the image                 *)

\* a user edits at most MaxEdits fields
MaxEdits == 1

ViewShapes ==
    {<<3>>, <<2, 3>>, <<1, 3>>, <<2, 2, 2>>}

\* the texts a user types into a field
ViewTexts ==
    {<<>>, <<"1">>, <<"1", ":">>, <<":", ":", "-", "1">>, <<"0", ":", "1">>,
     <<"1", ",", "0">>}

\* the operations a user selects from the menu
ViewOperations == {"None", "nanmean"}

\* the message of plot for more than MaxLines lines
MsgLines ==
    "You are trying to plot more than 500 lines! (change to 'unsave' mode in options to plot them anyway)"

\* the text info_msg was called with while _draw_data or update_shape,
\* returning r, ran: plot warns, no other step of the redraw has a message
Message(r) ==
    IF r.exc = NoExc /\ r.passed.called /\ r.G.shown.kind = "warned"
    THEN MsgLines ELSE NoMsg

\* the key of the array when the tree holds one array
OnlyKey == "data"

\* one array is loaded and its item is selected in the tree
OneArray ==
    /\ keys = <<OnlyKey>>
    /\ NoLoads
    /\ _data = [k \in {OnlyKey} |-> data]
    /\ cText = OnlyKey

\* the widgets and the ghosts are as the handler that returned r left them
Becomes(r) ==
    /\ Shape' = r.S
    /\ Graph' = r.G
    /\ exc' = r.exc
    /\ passed' = r.passed
    /\ errMsg' = Message(r)

\* the widgets are as update_shape, returning r, left them
Loaded(r) ==
    /\ Shape = r.S
    /\ Graph = r.G
    /\ exc = r.exc
    /\ passed = r.passed
    /\ errMsg = Message(r)

\* the array has been loaded and selected: update_shape has run
InitView ==
    /\ data \in ViewShapes
    /\ OneArray
    /\ Loaded(update_shape(ShapeInit, GraphInit, data, FALSE, OptsOff))
    /\ Transp = FALSE
    /\ opts = OptsOff
    /\ slices = {}
    /\ event = NoEvent
    /\ nEdits = 0
    /\ nOps = 0
    /\ nClicks = 0
    /\ MosaicIdle
    /\ TicksIdle
    /\ RgbIdle

\* ViewerWindow._set_slice: the texts are stored, then the data is drawn
_set_slice(S, G) ==
    /\ slices' = SlicesPut(slices, _slice_key, S.fields)
    /\ Becomes(_draw_data(S, G, data, Transp, opts))

\* the user leaves the text txt in the field of dimension n:
\* editingFinished calls _set_slice
EditField ==
    /\ nEdits < MaxEdits
    /\ \E n \in 1..Len(data), txt \in ViewTexts :
          /\ ValidatorAccepts(txt)
          /\ _set_slice([Shape EXCEPT !.fields[n] = txt], Graph)
    /\ event' = NoEvent
    /\ nEdits' = nEdits + 1
    /\ UNCHANGED <<_data, cText, data, Transp, opts, nOps, nClicks>>
    /\ UNCHANGED <<mosaicVars, tickVars, rgbVars, loadVars>>

\* change_operation_state(index), then _set_slice
LabelClicked(r) ==
    _set_slice([Shape EXCEPT !.operation_state = r.ret,
                             !.animation_state = -1], r.G)

\* a left click on the label of a dimension: singleShape._perform_operation
\* emits change_operation and calls _set_slice
ClickLabel ==
    /\ \E index \in 0..(Len(data) - 1) : LabelClicked(set_oprdim(Graph, index))
    /\ event' = NoEvent
    /\ UNCHANGED <<_data, cText, data, Transp, opts, nEdits, nOps, nClicks>>
    /\ UNCHANGED <<mosaicVars, tickVars, rgbVars, loadVars>>

\* ShapeSelector.set_operation(operation), so being what
\* GraphWidget.set_operation returned
OperationSet(so) ==
    Becomes(_draw_data([Shape EXCEPT !.operation_state = so.ret], so.G, data,
                       Transp, opts))

\* an entry of the Operations menu: ShapeSelector.set_operation
SetOperation ==
    /\ \E operation \in ViewOperations :
          OperationSet(set_operation(Graph, operation))
    /\ event' = NoEvent
    /\ UNCHANGED <<_data, cText, data, Transp, opts, slices, nEdits, nOps, nClicks>>
    /\ UNCHANGED <<mosaicVars, tickVars, rgbVars, loadVars>>

\* the Transpose checkbox: stateChanged calls _draw_data
ToggleTransp ==
    /\ Transp' = ~Transp
    /\ Becomes(_draw_data(Shape, Graph, data, ~Transp, opts))
    /\ event' = NoEvent
    /\ UNCHANGED <<_data, cText, data, opts, slices, nEdits, nOps, nClicks>>
    /\ UNCHANGED <<mosaicVars, tickVars, rgbVars, loadVars>>

\* a click with Shift on a pixel (x, y) of the displayed image that shows an
\* element of the cutout: onclick, then set_non_scalar_values with the
\* coordinates onclick derived
ShiftClick ==
    /\ Graph.picker
    /\ Graph.shown.kind \in {"image", "mosaic", "rgb"}
    /\ event.kind # "shift"
    /\ \E y \in 0..(Graph.shown.dat.shape[1] - 1),
          x \in 0..(Graph.shown.dat.shape[2] - 1) :
          /\ Graph.shown.dat.at[<<y, x>>] # Nan
          /\ event' = [kind |-> "shift", x |-> x, y |-> y,
                       elem |-> Graph.shown.dat.at[<<y, x>>],
                       fields |-> Shape.fields,
                       scalDims |-> Graph._tick_str.scalDims,
                       oprdim |-> Graph._oprdim,
                       has_operation |-> Graph.has_operation]
          /\ Becomes(ShiftClicked(Shape, Graph, data, Transp, opts,
                                  onclick(Graph, x, y)))
    /\ UNCHANGED <<_data, cText, data, Transp, opts, slices, nEdits, nOps, nClicks>>
    /\ UNCHANGED <<mosaicVars, tickVars, rgbVars, loadVars>>

NextView ==
    EditField \/ ClickLabel \/ SetOperation \/ ToggleTransp \/ ShiftClick

SpecView == InitView /\ [][NextView]_vars

\* the dimensions named by a tuple of dimensions
DimSet(t) == {t[k] : k \in 1..Len(t)}

\* the dimensions a reduction removes: the operation dimensions that are
\* not scalar
ReducedDims(oprdim, scalDims) == DimSet(oprdim) \ DimSet(scalDims)

\* C2 as stated: for every source shape, every slice spec and every
\* Operation-Dimension set D with a reduction selected, the cutout produced
\* by renewPlot has rank = source rank - |S| - |D \ S|, S being the set of
\* dimensions whose field parsed as a Scalar.
C2_AsStated ==
    (Graph.has_operation /\ passed.called /\ exc = NoExc) =>
        Len(Graph.cutout.shape)
            = Len(data) - Cardinality(DimSet(passed.scalDims))
                - Cardinality(ReducedDims(Graph._oprdim, passed.scalDims))

\* renewPlot has come to its reduction step: the fields were parsed and the
\* cutout was taken
ReachedReduction ==
    /\ passed.called
    /\ exc.at \notin {"renewPlot", "renew_cutout"}
    /\ ReducedDims(Graph._oprdim, passed.scalDims) # {}

\* d - |{s in S : s < d}|
Adjusted(d, S) == d - Cardinality({s \in S : s < d})

\* the cutout of the parsed fields, reduced over the axes renewPlot has
\* computed
ReducedCutout ==
    _opr(Graph, renew_cutout(data, passed.s).cutout, Graph._oprcorr.axes).cutout

\* C3: for every Operation-Dimension set D and Scalar-Dimension set S with
\* D not a subset of S, the axis tuple passed to the reduction in renewPlot
\* is exactly {d - |{s in S : s < d}| : d in D \ S}, and it is computed and
\* applied before the transpose swap of axes 0 and 1.
C3_AxisAdjustment ==
    ReachedReduction =>
        /\ Graph._oprcorr # NoAxes
        /\ DimSet(Graph._oprcorr.axes)
              = {Adjusted(d, DimSet(passed.scalDims)) :
                    d \in ReducedDims(Graph._oprdim, passed.scalDims)}
        /\ Len(Graph._oprcorr.axes)
              = Cardinality(ReducedDims(Graph._oprdim, passed.scalDims))
        /\ exc = NoExc =>
              Graph.cutout
                = IF Transp /\ Len(ReducedCutout.shape) > 1
                  THEN swapaxes01(ReducedCutout)
                  ELSE ReducedCutout

\* a reduction over a dimension that is not scalar has been applied, and
\* the reduced cutout has then been transposed
C3_Witness ==
    /\ ReachedReduction
    /\ exc = NoExc
    /\ Graph.has_operation
    /\ Transp
    /\ Len(Graph.cutout.shape) > 1
    /\ Graph.cutout # ReducedCutout

\* C5 as stated: for every rendered image or mosaic view, Shift-clicking
\* the pixel that displays source element e sets the slice field of every
\* displayed (non-scalar, non-reduced) dimension d to e's source index
\* along d (up to the from-the-end equivalence of negative indices) and
\* leaves the fields of scalar dimensions unchanged.
C5_AsStated ==
    event.kind = "shift" =>
        \A e \in event.elem : \A d \in 0..(Len(data) - 1) :
            IF d \in DimSet(event.scalDims)
            THEN Shape.fields[d + 1] = event.fields[d + 1]
            ELSE (event.has_operation /\ d \in DimSet(event.oprdim))
                    \/ /\ IsInt(Shape.fields[d + 1])
                       /\ int(Shape.fields[d + 1]) \in -data[d + 1]..(data[d + 1] - 1)
                       /\ (int(Shape.fields[d + 1]) - e[d + 1]) % data[d + 1] = 0

\* the entries of the parsed fields for the dimensions that are displayed:
\* those that are neither scalar nor reduced, in the order of the source
DisplayedEntries ==
    NonScalar(passed.s,
              KeptPositions([d \in 1..Len(data) |-> d - 1],
                            DimSet(passed.scalDims) \cup DimSet(Graph._oprdim)))

\* C23 as stated: when a click is translated while one or more dimensions
\* are reduced by the active operation, the tick source of every reduced
\* dimension is left out of the active tick list: the number of active tick
\* sources equals the cutout rank and the k-th click coordinate is
\* translated with the tick source of the k-th displayed (non-scalar,
\* non-reduced) dimension.
C23_AsStated ==
    (/\ passed.called /\ exc = NoExc
     /\ Graph.has_operation
     /\ ReducedDims(Graph._oprdim, passed.scalDims) # {}
     /\ Graph.shown.kind \in {"line", "lines", "mmm", "image", "mosaic"})
        => /\ Len(Graph.ticks) = Len(Graph.cutout.shape)
           /\ Graph.ticks
                = _set_ticks(DisplayedEntries, Graph.shown.kind # "line",
                             Transp).ticks

-----------------------------------------------------------------------------
(* One array in the viewer, selected with a stored slice: the user checks  *)
(* and unchecks the options of the Plot menu and the Transpose checkbox    *)

\* the arrays and their stored slices: cutouts of rank 0 to 4, with a last
\* axis of 3, with 5 columns, with different tick sources
PlotViews ==
    {[shape |-> <<3>>, fields |-> <<<<>>>>],
     [shape |-> <<3>>, fields |-> <<<<"0">>>>],
     [shape |-> <<2, 3>>, fields |-> <<<<>>, <<>>>>],
     [shape |-> <<2, 3>>, fields |-> <<<<>>, <<"1", ":">>>>],
     [shape |-> <<2, 5>>, fields |-> <<<<>>, <<>>>>],
     [shape |-> <<2, 5>>, fields |-> <<<<"1", ":", ":", "-", "1">>, <<>>>>],
     [shape |-> <<2, 3, 2>>, fields |-> <<<<>>, <<"1", ":">>, <<>>>>],
     [shape |-> <<2, 2, 3>>, fields |-> <<<<>>, <<>>, <<"0">>>>],
     [shape |-> <<2, 2, 3>>, fields |-> <<<<>>, <<>>, <<>>>>],
     [shape |-> <<2, 2, 2, 3>>, fields |-> <<<<>>, <<>>, <<>>, <<>>>>],
     [shape |-> <<2, 2, 2, 3>>, fields |-> <<<<>>, <<>>, <<"0">>, <<>>>>]}

\* ShapeSelector.update_shape(shape) for data with the stored slice
\* curr_slice
update_shape_stored(G, shape, Tr, o, curr_slice) ==
    _draw_data([labels |-> [n \in 1..Len(shape) |-> str(shape[n])],
                fields |-> curr_slice,
                operation_state |-> <<>>,
                animation_state |-> -1],
               G, shape, Tr, o)

\* the array has been selected, its stored slice has been put into the
\* fields and drawn
InitPlot ==
    /\ \E v \in PlotViews :
          /\ data = v.shape
          /\ OneArray
          /\ slices = {<<_slice_key, v.fields>>}
          /\ Loaded(update_shape_stored(GraphInit, data, FALSE, OptsOff,
                                        v.fields))
    /\ Transp = FALSE
    /\ opts = OptsOff
    /\ event = NoEvent
    /\ nEdits = 0
    /\ nOps = 0
    /\ nClicks = 0
    /\ MosaicIdle
    /\ TicksIdle
    /\ RgbIdle

\* ViewerWindow._checkboxes(fromP2D): Plot2D and MMM are not checked
\* together
_checkboxes(o, fromP2D) ==
    IF o.Plot2D /\ ~fromP2D THEN [o EXCEPT !.Plot2D = FALSE]
    ELSE IF o.MMM /\ fromP2D THEN [o EXCEPT !.MMM = FALSE]
    ELSE o

\* an entry of the Plot menu has been triggered and left the options o:
\* _draw_data
PlotOption(o) ==
    /\ opts' = o
    /\ Becomes(_draw_data(Shape, Graph, data, Transp, o))
    /\ event' = [kind |-> "option"]
    /\ UNCHANGED <<_data, cText, data, Transp, slices, nEdits, nOps, nClicks>>
    /\ UNCHANGED <<mosaicVars, tickVars, rgbVars, loadVars>>

\* "min-mean-max plot"
ToggleMMM == PlotOption(_checkboxes([opts EXCEPT !.MMM = ~opts.MMM], FALSE))

\* "2D as plot"
TogglePlot2D ==
    PlotOption(_checkboxes([opts EXCEPT !.Plot2D = ~opts.Plot2D], TRUE))

\* "3D as RGB"
TogglePlot3D == PlotOption([opts EXCEPT !.Plot3D = ~opts.Plot3D])

\* "Print Values as text"
TogglePrintFlat == PlotOption([opts EXCEPT !.PrintFlat = ~opts.PrintFlat])

\* the scatter option
TogglePlotScat == PlotOption([opts EXCEPT !.PlotScat = ~opts.PlotScat])

\* OptionsDialog.change_options: the 'unsave' option is set or unset; the
\* data is not drawn again
ChangeOptions ==
    /\ opts' = [opts EXCEPT !.unsave = ~opts.unsave]
    /\ event' = [kind |-> "config"]
    /\ errMsg' = NoMsg
    /\ UNCHANGED <<_data, cText, data, Shape, Graph, Transp, slices, exc, passed,
                   nEdits, nOps, nClicks>>
    /\ UNCHANGED <<mosaicVars, tickVars, rgbVars, loadVars>>

NextPlot ==
    \/ ToggleMMM
    \/ TogglePlot2D
    \/ TogglePlot3D
    \/ TogglePrintFlat
    \/ TogglePlotScat
    \/ ChangeOptions
    \/ ToggleTransp

SpecPlot == InitPlot /\ [][NextPlot]_vars

\* C11 as stated: from any view state, toggling Transp twice, each toggle
\* triggering a redraw, yields the same cutout and the same ordered list of
\* tick sources as before the two toggles; a single toggle with cutout
\* rank > 1 swaps cutout axes 0 and 1 and tick sources 0 and 1.  (The
\* second toggle is the redraw of the state the first one left, with Transp
\* as it was.)
C11_AsStated ==
    [][(Transp' # Transp) =>
          /\ _draw_data(Shape', Graph', data, Transp, opts).G.cutout
                = Graph.cutout
          /\ _draw_data(Shape', Graph', data, Transp, opts).G.ticks
                = Graph.ticks
          /\ Len(Graph.cutout.shape) > 1 =>
                /\ Graph'.cutout = swapaxes01(Graph.cutout)
                /\ Len(Graph.ticks) >= 2
                /\ Len(Graph'.ticks) = Len(Graph.ticks)
                /\ Graph'.ticks[1] = Graph.ticks[2]
                /\ Graph'.ticks[2] = Graph.ticks[1]]_vars

\* the last handler has drawn a cutout without a dimension of length 0
DrawnNonEmpty ==
    /\ event.kind # "config"
    /\ passed.called
    /\ exc = NoExc
    /\ \A k \in 1..Len(Graph.cutout.shape) : Graph.cutout.shape[k] # 0

\* the renderer the priority list names for a cutout of the shape sh under
\* the options o
Renderer(sh, o) ==
    IF Len(sh) = 0 \/ o.PrintFlat THEN {"text"}
    ELSE IF Len(sh) = 1 THEN {"line"}
    ELSE IF Len(sh) = 2
    THEN IF o.Plot2D THEN {"lines", "warned"}
         ELSE IF o.PlotScat /\ sh[2] <= 4 THEN {"scatter"}
         ELSE IF o.MMM THEN {"mmm"}
         ELSE {"image"}
    ELSE IF o.Plot3D /\ Len(sh) = 3 /\ sh[3] \in {3, 4} THEN {"rgb"}
    ELSE {"mosaic"}

\* C12: projection selection is a total, deterministic function of cutout
\* rank and toggles: for every non-empty cutout exactly one renderer is
\* chosen: text if rank 0 or PrintFlat; line plot if rank 1; for rank 2
\* per-column lines if Plot2D (which draws them or warns), else scatter if
\* PlotScat and column count <= 4, else max/mean/min lines if MMM, else
\* raster image; for rank >= 3 the RGB(A) composite if Plot3D is checked,
\* rank is exactly 3 and the last axis has size 3 or 4, else the mosaic.
C12_ProjectionSelection ==
    DrawnNonEmpty => Graph.shown.kind \in Renderer(Graph.cutout.shape, opts)

\* PlotScat and MMM are both checked and a cutout of rank 2 with at most 4
\* columns has been drawn as a scatter
C12_Witness ==
    /\ DrawnNonEmpty
    /\ opts.PlotScat /\ opts.MMM /\ ~opts.PrintFlat
    /\ Len(Graph.cutout.shape) = 2
    /\ Graph.shown.kind = "scatter"

-----------------------------------------------------------------------------
(* The RGB(A) composite of _n_D_plot applied to bounded cutouts of numbers  *)

\* the values of the cutout are 0..MaxRgbVal
MaxRgbVal == 1

\* cutouts of rank 3 whose last axis has the size of RGB or RGBA
RgbShapes == {<<1, 1, 3>>, <<1, 2, 3>>, <<1, 1, 4>>}

\* np.nanmin of an array of numbers
nanmin(A) ==
    CHOOSE v \in {A.at[ix] : ix \in DOMAIN A.at} :
        \A ix \in DOMAIN A.at : v <= A.at[ix]

\* np.nanmax of an array of numbers
nanmax(A) ==
    CHOOSE v \in {A.at[ix] : ix \in DOMAIN A.at} :
        \A ix \in DOMAIN A.at : v >= A.at[ix]

\* numpy's n / d: the quotient as a fraction [n, d]; a division by zero
\* gives, with a RuntimeWarning, nan for 0 / 0 (written [0, 0]), inf
\* ([1, 0]) or -inf ([-1, 0])
TrueDivide(n, d) ==
    IF d # 0 THEN [n |-> n, d |-> d]
    ELSE [n |-> IF n = 0 THEN 0 ELSE IF n > 0 THEN 1 ELSE -1, d |-> 0]

\* (self.cutout - mm[0]) / (mm[1] - mm[0]) for mm = (lo, hi)
Normalized(cutout, lo, hi) ==
    [shape |-> cutout.shape,
     at |-> [ix \in DOMAIN cutout.at |-> TrueDivide(cutout.at[ix] - lo, hi - lo)]]

\* the RGB(A) branch of _n_D_plot: dat as it is handed to imshow, and
\* whether the division was one by zero
RgbComposite(cutout) ==
    [done |-> TRUE,
     dat |-> swapaxes01(Normalized(cutout, nanmin(cutout), nanmax(cutout))),
     zerodiv |-> nanmax(cutout) - nanmin(cutout) = 0]

InitRgb ==
    /\ rgbCut \in {[shape |-> sh, at |-> f] :
                     sh \in RgbShapes,
                     f \in UNION {[Idx(sh) -> 0..MaxRgbVal] : sh \in RgbShapes}}
    /\ DOMAIN rgbCut.at = Idx(rgbCut.shape)
    /\ rgbDat = NoComposite
    /\ MosaicIdle
    /\ TicksIdle
    /\ ViewIdle

\* _n_D_plot comes to its RGB(A) branch with the cutout
ApplyRgb ==
    /\ ~rgbDat.done
    /\ rgbDat' = RgbComposite(rgbCut)
    /\ UNCHANGED rgbCut
    /\ UNCHANGED <<mosaicVars, tickVars, viewVars, loadVars>>

NextRgb == ApplyRgb

SpecRgb == InitRgb /\ [][NextRgb]_vars

\* the fraction q is the number n / d
IsFraction(q, n, d) == q.d # 0 /\ q.n * d = n * q.d

\* C18 as stated: in RGB(A) composite mode, when the maximum of the cutout
\* equals its minimum the normalization is skipped (the values are handed to
\* imshow as they are) and no division by zero is performed; otherwise
\* every value v is mapped to (v - min) / (max - min), which lies in [0, 1].
C18_AsStated ==
    rgbDat.done =>
        IF nanmax(rgbCut) = nanmin(rgbCut)
        THEN /\ ~rgbDat.zerodiv
             /\ rgbDat.dat = swapaxes01(rgbCut)
        ELSE \A ix \in DOMAIN rgbCut.at :
                /\ IsFraction(swapaxes01(rgbDat.dat).at[ix],
                              rgbCut.at[ix] - nanmin(rgbCut),
                              nanmax(rgbCut) - nanmin(rgbCut))
                /\ rgbCut.at[ix] - nanmin(rgbCut) >= 0
                /\ rgbCut.at[ix] - nanmin(rgbCut)
                      <= nanmax(rgbCut) - nanmin(rgbCut)

-----------------------------------------------------------------------------
(* One array of rank 2 in the viewer, some with MaxLines columns and more: *)
(* the user checks and unchecks Plot2D, MMM and PrintFlat, the 'unsave'    *)
(* option and the Transpose checkbox                                       *)

LineViews ==
    { [shape |-> <<2, 3>>, fields |-> << <<>>, <<>> >>],
      [shape |-> <<3, 2>>, fields |-> << <<>>, <<"1", ":">> >>],
      [shape |-> <<2, 2, 3>>, fields |-> << <<>>, <<"0">>, <<>> >>],
      [shape |-> <<2, MaxLines + 1>>, fields |-> << <<>>, <<>> >>],
      [shape |-> <<2, MaxLines + 1>>, fields |-> << <<>>, <<"1", ":">> >>] }

\* the array has been loaded and selected: update_shape has run
InitLines ==
    /\ \E v \in LineViews :
          /\ data = v.shape
          /\ OneArray
          /\ slices = {<<_slice_key, v.fields>>}
          /\ Loaded(update_shape_stored(GraphInit, data, FALSE, OptsOff,
                                        v.fields))
    /\ Transp = FALSE
    /\ opts = OptsOff
    /\ event = NoEvent
    /\ nEdits = 0
    /\ nOps = 0
    /\ nClicks = 0
    /\ MosaicIdle
    /\ TicksIdle
    /\ RgbIdle

NextLines ==
    \/ TogglePlot2D
    \/ ToggleMMM
    \/ TogglePrintFlat
    \/ ChangeOptions
    \/ ToggleTransp

SpecLines == InitLines /\ [][NextLines]_vars

\* the last handler has drawn a cutout of rank 2 with Plot2D checked and the
\* values not printed as text
LineMode ==
    /\ event.kind # "config"
    /\ exc = NoExc
    /\ passed.called
    /\ Len(Graph.cutout.shape) = 2
    /\ \A k \in 1..2 : Graph.cutout.shape[k] # 0
    /\ opts.Plot2D
    /\ ~opts.PrintFlat

\* C17: for a cutout of rank 2 drawn with Plot2D checked, if it has more
\* than 500 columns and the 'unsave' option is not set, the warning is
\* issued and nothing is handed to axes.plot; if it has at most 500 columns
\* or 'unsave' is set, the whole cutout is handed to axes.plot, which draws
\* one line for every column.
C17_OversizedLines ==
    LineMode =>
        IF Graph.cutout.shape[2] > 500 /\ ~opts.unsave
        THEN /\ Graph.shown.kind = "warned"
             /\ Graph.shown.dat = NoArray
             /\ errMsg = MsgLines
        ELSE /\ Graph.shown.kind = "lines"
             /\ Graph.shown.dat = Graph.cutout
             /\ errMsg = NoMsg

\* 500 columns are drawn without 'unsave'
C17_Witness ==
    /\ LineMode
    /\ ~opts.unsave
    /\ Graph.cutout.shape[2] = 500
    /\ Graph.shown.kind = "lines"
    /\ Graph.shown.dat.shape = <<2, 500>>

-----------------------------------------------------------------------------
(* One array of rank 1 in the viewer: the user types one text into its     *)
(* field                                                                   *)

\* the dimension has 0..MaxLen elements
MaxLen == 5
\* a typed integer has a magnitude of 0..MaxTyped
MaxTyped == 10
\* the parts of a typed range are omitted or in -MaxPart..MaxPart
MaxPart == 3
\* a typed list has 1..MaxItems items
MaxItems == 3
\* the items of a typed list are in -MaxItemVal..MaxItemVal
MaxItemVal == 2

\* what a user types: an integer with its sign and an optional leading
\* zero; a range with its parts; a list with its items, the last of them
\* followed by a comma or not; a text that is none of these
TypedInts ==
    {[kind |-> "int", sign |-> sg, zero |-> z, mag |-> m] :
        sg \in {"", "+", "-"}, z \in BOOLEAN, m \in 0..MaxTyped}

PartOpts == {None} \cup {Some(v) : v \in -MaxPart..MaxPart}

TypedRanges ==
    {[kind |-> "range", parts |-> p] :
        p \in {<<None>>} \cup [1..2 -> PartOpts] \cup [1..3 -> PartOpts]}

TypedLists ==
    {t \in {[kind |-> "list", items |-> it, comma |-> c] :
              it \in UNION {[1..k -> -MaxItemVal..MaxItemVal] : k \in 1..MaxItems},
              c \in BOOLEAN} :
        t.comma \/ (Len(t.items) >= 2 /\ t.items[Len(t.items)] >= 0)}

TypedOthers ==
    {[kind |-> "other", text |-> t] :
        t \in {<<"-">>, <<"+">>, <<":", "-">>, <<"-", ":">>,
               <<"1", ":", "+">>}}

\* the integer a typed integer denotes
TypedValue(t) == IF t.sign = "-" THEN -t.mag ELSE t.mag

\* the keys the user presses
TypedText(t) ==
    IF t.kind = "int"
    THEN (IF t.sign = "" THEN <<>> ELSE <<t.sign>>)
            \o (IF t.zero THEN <<"0">> ELSE <<>>) \o NatStr(t.mag)
    ELSE IF t.kind = "range"
    THEN JoinItems([k \in 1..Len(t.parts) |->
                      IF t.parts[k] = None THEN <<>> ELSE str(t.parts[k][1])],
                   <<":">>)
    ELSE IF t.kind = "list"
    THEN JoinItems([k \in 1..Len(t.items) |-> str(t.items[k])], <<",">>)
            \o (IF t.comma THEN <<",">> ELSE <<>>)
    ELSE t.text

\* an array of rank 1 has been loaded and selected: update_shape has run
InitField ==
    /\ data \in {<<n>> : n \in 0..MaxLen}
    /\ OneArray
    /\ Loaded(update_shape(ShapeInit, GraphInit, data, FALSE, OptsOff))
    /\ Transp = FALSE
    /\ opts = OptsOff
    /\ slices = {}
    /\ event = NoEvent
    /\ nEdits = 0
    /\ nOps = 0
    /\ nClicks = 0
    /\ MosaicIdle
    /\ TicksIdle
    /\ RgbIdle

\* the user types a text into the field and leaves it: editingFinished
\* calls _set_slice
TypeField ==
    /\ event = NoEvent
    /\ \E t \in TypedInts \cup TypedRanges \cup TypedLists \cup TypedOthers :
          /\ ValidatorAccepts(TypedText(t))
          /\ _set_slice([Shape EXCEPT !.fields[1] = TypedText(t)], Graph)
          /\ event' = [kind |-> "type", typed |-> t]
    /\ UNCHANGED <<_data, cText, data, Transp, opts, nEdits, nOps, nClicks>>
    /\ UNCHANGED <<mosaicVars, tickVars, rgbVars, loadVars>>

NextField == TypeField

SpecField == InitField /\ [][NextField]_vars

\* v brought into -n..n-1
Clamped(v, n) == IF v < -n THEN -n ELSE IF v > n - 1 THEN n - 1 ELSE v

\* the user has typed an integer into the field of a dimension of n >= 1
\* elements
TypedInt == event.kind = "type" /\ event.typed.kind = "int" /\ data[1] >= 1

\* C6: for every dimension size n >= 1 and every field text that is an
\* optionally signed integer v, the parsed entry is the Scalar
\* min(max(v, -n), n - 1), the dimension is in the Scalar-Dimension set and
\* the field text is rewritten to the clamped value; for size 5, "2" gives
\* 2, "10" gives 4 and "-10" gives -5.
C6_ScalarClamp ==
    TypedInt =>
        /\ passed.called
        /\ passed.s = <<IntEntry(Clamped(TypedValue(event.typed), data[1]))>>
        /\ passed.scalDims = <<0>>
        /\ Shape.fields[1] = str(Clamped(TypedValue(event.typed), data[1]))
        /\ IsInt(Shape.fields[1])
        /\ int(Shape.fields[1]) = Clamped(TypedValue(event.typed), data[1])
        /\ data[1] = 5 =>
              /\ TypedValue(event.typed) = 2 => passed.s[1].n = 2
              /\ TypedValue(event.typed) = 10 => passed.s[1].n = 4
              /\ TypedValue(event.typed) = -10 => passed.s[1].n = -5

\* "10" has been typed for a dimension of 5 elements and clamped to 4
C6_Witness ==
    /\ TypedInt
    /\ data[1] = 5
    /\ TypedText(event.typed) = <<"1", "0">>
    /\ passed.s = <<IntEntry(4)>>
    /\ Shape.fields[1] = <<"4">>

\* the user has typed a range (or nothing) into the field of a dimension and
\* the data has been drawn
TypedRange ==
    /\ event.kind = "type" /\ event.typed.kind = "range"
    /\ passed.called /\ exc = NoExc

\* the part of a typed range at position k of start, stop, step, or the
\* default that stands in for it when it is omitted
PartOr(parts, k, default) ==
    IF Len(parts) = 1 THEN (IF k = 2 /\ parts[1] # None THEN parts[1] ELSE Some(default))
    ELSE IF k > Len(parts) \/ parts[k] = None THEN Some(default) ELSE parts[k]

\* the source indices of the displayed samples, in the order of display
Samples(A) ==
    IF A.shape = <<>> THEN <<A.at[<<>>]>>
    ELSE [k \in 1..A.shape[1] |-> A.at[<<k - 1>>]]

\* C7 as stated: an empty field selects the elements of Range(0, n, 1); a
\* field "a:b:c" with parts omitted selects, in the same order, the elements
\* selected after start = 0, stop = n, step = 1 have been put in for the
\* omitted parts; the tick source of the axis starts at the source index
\* of the first displayed sample (from-the-end indices being equivalent).
C7_AsStated ==
    TypedRange =>
        LET n == data[1]
            p == event.typed.parts
            sub == SliceEntry(PartOr(p, 1, 0), PartOr(p, 2, n), PartOr(p, 3, 1))
            want == SliceIndices(sub, n)
        IN /\ Samples(Graph.cutout) = [k \in 1..Len(want) |-> {<<want[k]>>}]
           /\ Graph.shown.kind = "line" =>
                 /\ Graph.ticks[1].kind = "list"
                 /\ (Graph.ticks[1].v[1] - want[1]) % n = 0

\* the user has typed a list into the field of a dimension of n >= 1
\* elements
TypedList == event.kind = "type" /\ event.typed.kind = "list" /\ data[1] >= 1

\* the first position of the value v in the tuple s
FirstPosition(s, v) ==
    CHOOSE k \in 1..Len(s) : s[k] = v /\ \A j \in 1..(k - 1) : s[j] # v

\* C8: for every dimension size n and every field text with a comma, the
\* parsed entry is an IndexList of the comma-separated integers (empty items
\* ignored), each clamped to [-n, n-1], values that are equal after clamping
\* kept once in first-occurrence order; the dimension is not in the
\* Scalar-Dimension set and the field text is rewritten to that list.
C8_IndexList ==
    TypedList =>
        LET cl == [k \in 1..Len(event.typed.items) |->
                     Clamped(event.typed.items[k], data[1])]
            t  == passed.s[1].t
            shown == SelectSeq(split(Shape.fields[1], ","), IsNotEmpty)
        IN /\ passed.called
           /\ passed.s[1].kind = "tuple"
           /\ {t[k] : k \in 1..Len(t)} = {cl[k] : k \in 1..Len(cl)}
           /\ \A i, j \in 1..Len(t) :
                 i < j => FirstPosition(cl, t[i]) < FirstPosition(cl, t[j])
           /\ passed.scalDims = <<>>
           /\ \A k \in 1..Len(shown) : IsInt(shown[k])
           /\ [k \in 1..Len(shown) |-> int(shown[k])] = t
           /\ \A k \in 1..Len(Shape.fields[1]) :
                 Shape.fields[1][k] = "," \/ Shape.fields[1][k] = "-"
                    \/ IsDigit(Shape.fields[1][k])

\* a list of three items has been typed of which two are equal after
\* clamping, and the field shows the two values that are left
C8_Witness ==
    /\ TypedList
    /\ Len(event.typed.items) = 3
    /\ event.typed.items[1] # event.typed.items[3]
    /\ passed.s[1].kind = "tuple"
    /\ Len(passed.s[1].t) = 2
    /\ passed.s[1].t[1] = Clamped(event.typed.items[1], data[1])
    /\ Shape.fields[1] = TupleText(passed.s[1].t)

\* a text that is neither an integer, a range nor a list has been typed into
\* the field of a dimension with elements
TypedMalformed ==
    event.kind = "type" /\ event.typed.kind = "other" /\ data[1] >= 1

\* C15 as stated: if the text of a field cannot be parsed, the redraw
\* reports an error message to the user, treats the dimension as "all" (the
\* full range is handed to renewPlot and the dimension is not among the
\* scalar dimensions), and no exception leaves the redraw.
C15_AsStated ==
    TypedMalformed =>
        /\ exc = NoExc
        /\ errMsg # NoMsg
        /\ passed.called
        /\ passed.s = <<SliceEntry(None, None, None)>>
        /\ passed.scalDims = <<>>

\* the redraw came to plot with a cutout that has a dimension of length 0
EmptyCutoutPlotted ==
    /\ event.kind = "type"
    /\ exc = NoExc
    /\ passed.called
    /\ \E k \in 1..Len(Graph.cutout.shape) : Graph.cutout.shape[k] = 0

\* C16 as stated: whenever the cutout has a zero-length dimension after
\* slicing, plot invokes none of the renderers, the axes are cleared, and
\* the empty view is reported to the user.
C16_AsStated ==
    EmptyCutoutPlotted =>
        /\ Graph.shown.kind = "cleared"
        /\ errMsg # NoMsg

-----------------------------------------------------------------------------
(* Two arrays in the viewer: the user selects them in the tree, edits the  *)
(* fields, clicks labels, selects an operation and uses the Permute field, *)
(* the reshape dialog and the new-data dialog                              *)

\* the dialogs are used MaxOps times
MaxOps == 1

\* the keys of the two arrays, as _slice_key joins them
DataKeys == {"f/A", "f/B"}

\* the top-level key of the file that holds the two arrays
DataFile == "f"

\* the arrays load_files has put into _data
DataLoaded == [k \in DataKeys |-> IF k = "f/A" THEN <<2, 3, 4>> ELSE <<3>>]

\* self.slices[key] if key is in self.slices
Cached(sl, key) ==
    IF \E p \in sl : p[1] = key
    THEN Some((CHOOSE p \in sl : p[1] = key)[2])
    ELSE None

\* ViewerWindow._load_slice for the item with the given key
_load_slice(dat, sl, key) == IF DOMAIN dat = {} THEN None ELSE Cached(sl, key)

\* the text of the n-th widget of a row before _update_shape writes it: the
\* text it had, or the text __init__ gave it
WidgetText(texts, n, initial) == IF n <= Len(texts) THEN texts[n] ELSE initial

\* _update_shape is left by the IndexError of curr_slice[n]: the labels up
\* to that widget and the fields before it are written
UpdateShapeExc(S, G, shape, curr_slice) ==
    [exc |-> Raised("IndexError", "_update_shape"),
     S |-> [S EXCEPT
              !.labels = [n \in 1..Len(shape) |->
                            IF n <= Len(curr_slice) + 1 THEN str(shape[n])
                            ELSE WidgetText(S.labels, n, <<"0">>)],
              !.fields = [n \in 1..Len(shape) |->
                            IF n <= Len(curr_slice) THEN curr_slice[n]
                            ELSE WidgetText(S.fields, n, <<>>)]],
     G |-> G,
     passed |-> NotPassed]

\* ViewerWindow._update_shape(shape) with fixate_view off: loaded is what
\* _load_slice returned
_update_shape(S, G, shape, Tr, o, loaded) ==
    IF loaded # None /\ loaded[1] # <<>>
    THEN IF Len(loaded[1]) < Len(shape)
         THEN UpdateShapeExc(S, G, shape, loaded[1])
         ELSE _draw_data([S EXCEPT
                            !.labels = [n \in 1..Len(shape) |-> str(shape[n])],
                            !.fields = [n \in 1..Len(shape) |-> loaded[1][n]]],
                         G, shape, Tr, o)
    ELSE _draw_data([S EXCEPT
                       !.labels = [n \in 1..Len(shape) |-> str(shape[n])],
                       !.fields = DefaultFields(shape)],
                    G, shape, Tr, o)

\* GraphWidget.clear
clear(G) == [G EXCEPT !.shown = Shown("cleared")]

\* ViewerWindow._change_tree for an item that holds an array
_change_tree(S, G, shape, Tr, o, loaded) ==
    _update_shape(S, clear(set_oprdim(G, -1).G), shape, Tr, o, loaded)

\* the files are loaded and the first array is selected
InitData ==
    /\ keys = <<DataFile>>
    /\ NoLoads
    /\ _data = DataLoaded
    /\ cText = "f/A"
    /\ data = _data[cText]
    /\ slices = {}
    /\ Loaded(_change_tree(ShapeInit, GraphInit, data, FALSE, OptsOff, None))
    /\ Transp = FALSE
    /\ opts = OptsOff
    /\ event = NoEvent
    /\ nEdits = 0
    /\ nOps = 0
    /\ nClicks = 0
    /\ MosaicIdle
    /\ TicksIdle
    /\ RgbIdle

\* the operation dimensions in effect
OprDimsInEffect(G) == IF G.has_operation THEN G._oprdim ELSE <<>>

\* the view of the selected array
ViewOfSelected ==
    [key |-> cText, fields |-> Shape.fields, oprdim |-> OprDimsInEffect(Graph)]

\* the user selects another item of the tree: currentItemChanged calls
\* _change_tree.  The event keeps the view that is left and, when the user
\* comes back to the item left by the last event, the view it was left with
SelectDataset ==
    /\ \E key \in DOMAIN _data \ {cText} :
          /\ cText' = key
          /\ data' = _data[key]
          /\ Becomes(_change_tree(Shape, Graph, _data[key], Transp, opts,
                                  _load_slice(_data, slices, key)))
          /\ event' = [kind |-> "select",
                       left |-> ViewOfSelected,
                       returned |-> event.kind = "select" /\ event.left.key = key,
                       was |-> IF event.kind = "select" THEN event.left
                               ELSE ViewOfSelected]
    /\ UNCHANGED <<_data, Transp, opts, slices, nEdits, nOps, nClicks>>
    /\ UNCHANGED <<mosaicVars, tickVars, rgbVars, loadVars>>

\* the characters of the texts, in the order of their codes
Chars ==
    <<" ", "(", ")", "+", ",", "-", "0", "1", "2", "3", "4", "5", "6", "7",
      "8", "9", ":", "[", "]">>

\* ord(c)
Ord(c) == CHOOSE k \in 1..Len(Chars) : Chars[k] = c

RECURSIVE StrLess(_, _)
\* a < b for two texts
StrLess(a, b) ==
    IF b = <<>> THEN FALSE
    ELSE IF a = <<>> THEN TRUE
    ELSE IF a[1] # b[1] THEN Ord(a[1]) < Ord(b[1])
    ELSE StrLess(Tail(a), Tail(b))

RECURSIVE sorted(_)
\* list.sort() of a list of texts
sorted(l) ==
    IF l = <<>> THEN <<>>
    ELSE LET least == CHOOSE k \in 1..Len(l) :
                         \A j \in 1..Len(l) : ~StrLess(l[j], l[k])
         IN <<l[least]>>
               \o sorted([j \in 1..(Len(l) - 1) |->
                            IF j < least THEN l[j] ELSE l[j + 1]])

RECURSIVE strip(_, _)
\* str.strip(chars)
strip(t, chars) ==
    IF t = <<>> THEN t
    ELSE IF t[1] \in chars THEN strip(Tail(t), chars)
    ELSE IF t[Len(t)] \in chars THEN strip(SubSeq(t, 1, Len(t) - 1), chars)
    ELSE t

RECURSIVE PyItems(_)
\* the items of str(tuple) for a tuple of two integers or more, as a string
PyItems(t) ==
    IF Len(t) = 1 THEN ToString(t[1])
    ELSE ToString(t[1]) \o ", " \o PyItems(Tail(t))

\* the message of a permutation to the shape sh by new_order
MsgPermuted(sh, new_order) ==
    "Permuted from ("
        \o PyItems([j \in 1..Len(new_order) |-> sh[new_order[j] + 1]])
        \o ") to (" \o PyItems(sh) \o ")"

\* the message of a rejected permutation
MsgPermute == "Shape is not matching dimensions. Aborting!"

\* the mutant of Permuted: the entry of axis j goes to axis new_order[j]
PermutedInverse(seq, new_order) ==
    [j \in 1..Len(new_order) |->
        seq[CHOOSE i \in 1..Len(new_order) : new_order[i] + 1 = j]]

\* [seq[i] for i in new_order], and the shape np.transpose(.., new_order)
\* gives an array of the shape seq
Permuted(seq, new_order) ==
    [j \in 1..Len(new_order) |-> seq[new_order[j] + 1]]

\* what a handler of the data leaves: the shape of the selected array, the
\* slices, the widgets and the message
Handled(shape, sl, r, msg) ==
    [shape |-> shape, slices |-> sl, S |-> r.S, G |-> r.G, exc |-> r.exc,
     passed |-> r.passed, msg |-> msg]

\* the handler returns without a redraw
NotDrawn(S, G) == [exc |-> NoExc, S |-> S, G |-> G, passed |-> NotPassed]

\* _permute_data after the transposition to the shape sh, the slices being
\* sl: r is what _update_shape returned or raised
PermuteShown(sh, sl, new_order, r) ==
    Handled(sh, sl, r,
            IF r.exc = NoExc THEN MsgPermuted(sh, new_order) ELSE NoMsg)

\* _permute_data for a text that names every dimension once
PermuteBy(new_order, S, G, shape, sl, key, Tr, o) ==
    IF new_order = [j \in 1..Len(new_order) |-> j - 1]
    THEN Handled(shape, sl, NotDrawn(S, G), NoMsg)
    ELSE LET sl2 == IF Cached(sl, key) # None
                    THEN SlicesPut(sl, key,
                                   Permuted(Cached(sl, key)[1], new_order))
                    ELSE sl
         IN PermuteShown(Permuted(shape, new_order), sl2, new_order,
                         _update_shape(S, G, Permuted(shape, new_order), Tr, o,
                                       Cached(sl2, key)))

\* content.split(",") as integers
AsInts(items) == [k \in 1..Len(items) |-> int(items[k])]

\* ViewerWindow._permute_data with the text of the Permute field
_permute_data(text, S, G, shape, sl, key, Tr, o) ==
    LET content == SelectSeq(strip(text, {"(", "[", "]", ")"}), IsNotSpace)
    IN IF sorted(split(content, ",")) # [a \in 1..Len(shape) |-> str(a - 1)]
       THEN Handled(shape, sl, NotDrawn(S, G), MsgPermute)
       ELSE PermuteBy(AsInts(split(content, ",")), S, G, shape, sl, key, Tr, o)

\* what a user leaves in the Permute field: a list of indices as the field
\* shows it, or its items with commas, or nothing
PermTyped ==
    {[list |-> l, brackets |-> b] :
        l \in {<<>>, <<0>>, <<0, 1>>, <<1, 0>>, <<0, 1, 2>>, <<1, 0, 2>>,
               <<1, 2, 0>>, <<2, 0, 1>>, <<0, 0, 1>>, <<0, 1, 3>>,
               <<0, 1, 2, 3>>},
        b \in BOOLEAN}

\* the text of the Permute field
PermText(t) ==
    IF t.brackets
    THEN <<"[">> \o JoinItems([k \in 1..Len(t.list) |-> str(t.list[k])],
                              <<",", " ">>) \o <<"]">>
    ELSE JoinItems([k \in 1..Len(t.list) |-> str(t.list[k])], <<",">>)

\* the widgets, the exception and the message are as the handler left them
HandledBecomes(r) ==
    /\ data' = r.shape
    /\ _data' = [_data EXCEPT ![cText] = r.shape]
    /\ slices' = r.slices
    /\ Shape' = r.S
    /\ Graph' = r.G
    /\ exc' = r.exc
    /\ passed' = r.passed
    /\ errMsg' = r.msg

\* the Permute button: _permute_data.  The event keeps the text and the
\* array, the slices and the fields before it
PermuteData ==
    /\ nOps < MaxOps
    /\ \E t \in PermTyped :
          /\ HandledBecomes(_permute_data(PermText(t), Shape, Graph, data,
                                          slices, cText, Transp, opts))
          /\ event' = [kind |-> "permute", typed |-> t, shape |-> data,
                       slices |-> slices, fields |-> Shape.fields]
    /\ nOps' = nOps + 1
    /\ UNCHANGED <<cText, Transp, opts, nEdits, nClicks>>
    /\ UNCHANGED <<mosaicVars, tickVars, rgbVars, loadVars>>

\* _get_shape_from_str(string)
_get_shape_from_str(string) ==
    AsInts(SelectSeq(split(strip(string, {"(", ")", "[", "]"}), ","),
                     IsNotEmpty))

\* the message of a rejected reshape
MsgReshape == "Data could not be reshaped!"

RECURSIVE ReshapeLoop(_, _, _)
\* the loop of reshape_array: texts are the texts the user confirms with OK,
\* one for each turn, before Cancel is pressed; msg is the message so far
ReshapeLoop(shape, texts, msg) ==
    IF texts = <<>> THEN [shape |-> shape, s |-> None, msg |-> msg]
    ELSE IF Head(texts) = <<>> THEN ReshapeLoop(shape, Tail(texts), msg)
    ELSE IF Prod(_get_shape_from_str(Head(texts))) # Prod(shape)
    THEN ReshapeLoop(shape, Tail(texts), MsgReshape)
    ELSE [shape |-> _get_shape_from_str(Head(texts)),
          s |-> Some(_get_shape_from_str(Head(texts))), msg |-> msg]

\* ReshapeDialog.reshape_array(data) for an array with dimensions
reshape_array(shape, texts) == ReshapeLoop(shape, texts, NoMsg)

\* _dlg_reshape after reshape_array, the slices being sl: r is what
\* _update_shape returned or raised
ReshapeShown(ra, sl, r) ==
    Handled(ra.shape, sl, r, IF Message(r) # NoMsg THEN Message(r) ELSE ra.msg)

\* ViewerWindow._dlg_reshape for a selected item without children that
\* holds an array: ra is what reshape_array returned
_dlg_reshape(ra, S, G, sl, key, Tr, o) ==
    ReshapeShown(ra, {p \in sl : p[1] # key},
                 _update_shape(S, G, ra.shape, Tr, o,
                               Cached({p \in sl : p[1] # key}, key)))

\* the shapes a user types into the reshape dialog
ReshapeTyped == {<<>>, <<24>>, <<4, 6>>, <<3>>, <<5, 5>>, <<2, 3>>}

\* the texts the user confirms before the dialog ends
ReshapeTries ==
    {<<>>} \cup {<<a>> : a \in ReshapeTyped}
           \cup {<<a, b>> : a \in {<<>>, <<5, 5>>}, b \in {<<>>, <<4, 6>>}}

\* the text of a shape
ShapeText(l) == JoinItems([k \in 1..Len(l) |-> str(l[k])], <<",">>)

\* the reshape entry of the menu: _dlg_reshape.  The event keeps whether a
\* text was rejected, whether the dialog was cancelled, and the array, the
\* slices and the fields before it
ReshapeData ==
    /\ nOps < MaxOps
    /\ \E tries \in ReshapeTries :
          \E ra \in {reshape_array(data, [k \in 1..Len(tries) |->
                                            ShapeText(tries[k])])} :
             /\ HandledBecomes(_dlg_reshape(ra, Shape, Graph, slices, cText,
                                            Transp, opts))
             /\ event' = [kind |-> "reshape", tries |-> tries,
                          rejected |-> ra.msg = MsgReshape,
                          cancelled |-> ra.s = None,
                          shape |-> data, slices |-> slices,
                          fields |-> Shape.fields]
    /\ nOps' = nOps + 1
    /\ UNCHANGED <<cText, Transp, opts, nEdits, nClicks>>
    /\ UNCHANGED <<mosaicVars, tickVars, rgbVars, loadVars>>

\* the shapes of the arrays a user computes in the new-data dialog
NewShapes == {<<4>>, <<2, 2>>}

\* _dlg_new_data after self[0] = _data: r is what _update_shape returned
\* or raised
NewDataShown(shape, sl, r) == Handled(shape, sl, r, Message(r))

\* ViewerWindow._dlg_new_data when the dialog returns the key 1: the array
\* replaces the selected one
_dlg_new_data(shape, S, G, sl, key, Tr, o) ==
    NewDataShown(shape, sl, _update_shape(S, G, shape, Tr, o, Cached(sl, key)))

\* the new-data dialog, saved without a name
NewData ==
    /\ nOps < MaxOps
    /\ \E shape \in NewShapes :
          HandledBecomes(_dlg_new_data(shape, Shape, Graph, slices, cText,
                                       Transp, opts))
    /\ event' = [kind |-> "newdata"]
    /\ nOps' = nOps + 1
    /\ UNCHANGED <<cText, Transp, opts, nEdits, nClicks>>
    /\ UNCHANGED <<mosaicVars, tickVars, rgbVars, loadVars>>

NextData ==
    \/ SelectDataset
    \/ EditField
    \/ ClickLabel
    \/ SetOperation
    \/ ReshapeData
    \/ NewData

SpecData == InitData /\ [][NextData]_vars

\* C13 as stated: if the user edits the slice fields of a dataset and, with
\* a reduction selected, marks operation dimensions, then selects another
\* dataset and then the first one again, the slice fields and the operation
\* dimensions in effect are the same as when the dataset was left (no
\* dialog has been used on the data).
C13_AsStated ==
    (event.kind = "select" /\ event.returned /\ nOps = 0) =>
        /\ Shape.fields = event.was.fields
        /\ OprDimsInEffect(Graph) = event.was.oprdim

\* C14 as stated: in every reachable state, for every key with an entry in
\* the slices cache, the number of cached texts equals the rank of the
\* array stored at that key.
C14_AsStated ==
    \A p \in slices :
        p[1] \in DOMAIN _data => Len(p[2]) = Len(_data[p[1]])

\* C20 as stated: if the entered reshape target does not have the array's
\* element count, the array is not modified and "Data could not be
\* reshaped!" is reported; if the user then cancels the dialog, the
\* dataset, its entry in the slices cache and its displayed slice fields
\* are the same as before the dialog was opened.
C20_AsStated ==
    (event.kind = "reshape" /\ event.rejected /\ event.cancelled) =>
        /\ errMsg = MsgReshape
        /\ data = event.shape
        /\ _data[cText] = event.shape
        /\ Cached(slices, cText) = Cached(event.slices, cText)
        /\ Shape.fields = event.fields

-----------------------------------------------------------------------------
(* Two arrays in the viewer, the first with or without a stored slice: the *)
(* user uses the Permute field and selects the arrays in the tree          *)

\* the slices stored for the first array
PermStored ==
    {None, Some(<< <<"1">>, <<>>, <<"0">> >>),
     Some(<< <<>>, <<"1", ":">>, <<"0">> >>),
     Some(<< <<"0">>, <<":", ":", "-", "1">>, <<>> >>)}

\* the files are loaded and the first array is selected
InitPermute ==
    /\ keys = <<DataFile>>
    /\ NoLoads
    /\ _data = DataLoaded
    /\ cText = "f/A"
    /\ data = _data[cText]
    /\ \E st \in PermStored :
          /\ slices = IF st = None THEN {} ELSE {<<cText, st[1]>>}
          /\ Loaded(_change_tree(ShapeInit, GraphInit, data, FALSE, OptsOff, st))
    /\ Transp = FALSE
    /\ opts = OptsOff
    /\ event = NoEvent
    /\ nEdits = 0
    /\ nOps = 0
    /\ nClicks = 0
    /\ MosaicIdle
    /\ TicksIdle
    /\ RgbIdle

NextPermute == PermuteData \/ SelectDataset

SpecPermute == InitPermute /\ [][NextPermute]_vars

\* the list names every dimension of an array of the given rank once
IsPermutation(l, rank) ==
    Len(l) = rank /\ {l[k] : k \in 1..Len(l)} = 0..(rank - 1)

\* the list is 0, 1, ...
IsIdentity(l) == \A k \in 1..Len(l) : l[k] = k - 1

\* C19: if the permute text is not a permutation of 0..rank-1, _permute_data
\* reports "Shape is not matching dimensions. Aborting!" and the array, the
\* slices cache and the slice fields are unchanged; if it is a permutation p
\* other than the identity, axis j of the array is the old axis p[j] and the
\* cached text of axis j is the one the old axis p[j] had.
C19_PermuteData ==
    event.kind = "permute" =>
        IF ~IsPermutation(event.typed.list, Len(event.shape))
        THEN /\ errMsg = MsgPermute
             /\ data = event.shape
             /\ _data[cText] = event.shape
             /\ slices = event.slices
             /\ Shape.fields = event.fields
        ELSE ~IsIdentity(event.typed.list) =>
                /\ data = [j \in 1..Len(event.shape) |->
                             event.shape[event.typed.list[j] + 1]]
                /\ _data[cText] = data
                /\ Cached(event.slices, cText) # None =>
                      Cached(slices, cText) =
                         Some([j \in 1..Len(event.shape) |->
                                 Cached(event.slices, cText)[1][
                                    event.typed.list[j] + 1]])

\* a cached slice with three different texts has been permuted by 1, 2, 0
C19_Witness ==
    /\ event.kind = "permute"
    /\ event.typed.list = <<1, 2, 0>>
    /\ event.shape = <<2, 3, 4>>
    /\ Cached(event.slices, cText) # None
    /\ Cardinality({Cached(event.slices, cText)[1][k] : k \in 1..3}) = 3
    /\ data = <<3, 4, 2>>

-----------------------------------------------------------------------------
(* One array in the viewer, selected with a stored slice: the user         *)
(* right-clicks labels to animate a dimension, the animation timer fires,  *)
(* and the user clicks labels, selects an operation and toggles Transp     *)

\* the arrays and the texts of their fields: with and without a scalar
\* dimension
AnimViews ==
    {[shape |-> <<2, 3>>, fields |-> <<<<>>, <<>>>>],
     [shape |-> <<2, 3>>, fields |-> <<<<"1">>, <<>>>>],
     [shape |-> <<2, 2, 2>>, fields |-> <<<<>>, <<>>, <<>>>>]}

\* the array has been selected, its stored slice has been put into the
\* fields and drawn
InitAnim ==
    /\ \E v \in AnimViews :
          /\ data = v.shape
          /\ OneArray
          /\ slices = {<<_slice_key, v.fields>>}
          /\ Loaded(update_shape_stored(GraphInit, data, FALSE, OptsOff,
                                        v.fields))
    /\ Transp = FALSE
    /\ opts = OptsOff
    /\ event = NoEvent
    /\ nEdits = 0
    /\ nOps = 0
    /\ nClicks = 0
    /\ MosaicIdle
    /\ TicksIdle
    /\ RgbIdle

\* the widgets and the ghosts are as a handler of the animation, returning
\* r, left them
AnimBecomes(r) ==
    /\ Shape' = r.S
    /\ Graph' = r.G
    /\ exc' = r.exc
    /\ passed' = r.passed
    /\ errMsg' = IF r.exc = NoExc /\ r.G.shown.kind = "warned"
                 THEN MsgLines ELSE NoMsg

\* a right click on the label of a dimension: singleShape.mouseReleaseEvent
\* emits change_animation
RightClickLabel ==
    /\ \E index \in 0..(Len(data) - 1) :
          /\ event' = [kind |-> "animate", index |-> index,
                       was |-> [animation_state |-> Shape.animation_state,
                                oprdim |-> Graph._oprdim,
                                scalDims |-> Graph._tick_str.scalDims]]
          /\ AnimBecomes(change_animation_state(Shape, Graph, index, data,
                                                Transp, opts))
    /\ UNCHANGED <<_data, cText, data, Transp, opts, slices, nEdits, nOps, nClicks>>
    /\ UNCHANGED <<mosaicVars, tickVars, rgbVars, loadVars>>

\* the timeout of the animation timer: _animate
TimerTick ==
    /\ Graph._anim_timer
    /\ event' = [kind |-> "tick", step |-> Graph._anim_step,
                 dim |-> Graph._anim_dim]
    /\ \E an \in {_animate(Graph, Transp, opts)} :
          AnimBecomes([exc |-> an.exc, S |-> Shape, G |-> an.G,
                       passed |-> NotPassed])
    /\ UNCHANGED <<_data, cText, data, Transp, opts, slices, nEdits, nOps, nClicks>>
    /\ UNCHANGED <<mosaicVars, tickVars, rgbVars, loadVars>>

NextAnim ==
    \/ RightClickLabel \/ TimerTick \/ ClickLabel \/ SetOperation
    \/ ToggleTransp

SpecAnim == InitAnim /\ [][NextAnim]_vars

\* what get_shape returns for the fields as they stand
CurrentShape == get_shape(Shape.fields, Shape.labels)

\* the source array with the current slice spec applied and nothing else:
\* renew_cutout(data, s)
UnreducedBase == renew_cutout(data, CurrentShape.shapeStr).cutout

\* the cutout a redraw with the current fields, operation dimensions and
\* Transp shows: what _draw_data would leave in GraphWidget.cutout
UnreducedDrawn ==
    renewPlot(Graph, data, CurrentShape.shapeStr, CurrentShape.scalarDims,
              Transp, opts).G.cutout

\* the last event was a right click that called start_animation(index) on
\* a dimension that was reduced over, with a reduction selected, and is not
\* scalar
StartedOnOprdim ==
    /\ event.kind = "animate"
    /\ Graph.has_operation
    /\ event.was.animation_state # event.index
    /\ event.index \in DimSet(event.was.oprdim)
    /\ event.index \notin DimSet(event.was.scalDims)

\* C21 as stated: after start_animation(d) for a dimension d of the
\* Operation-Dimension set, d has left the set and the base cutout of the
\* animation (_anim_cutout) is the un-reduced cutout: the source array with
\* the current slice spec applied (scalar dimensions collapsed, ranges and
\* index lists applied) and no reduction over d, either as renew_cutout
\* leaves it or as a redraw without d in the set shows it.
C21_AsStated ==
    StartedOnOprdim =>
        /\ event.index \notin DimSet(Graph._oprdim)
        /\ Graph._anim_cutout \in {UnreducedBase, UnreducedDrawn}

\* the source indices shown along dimension d with the current fields
ShownAlong(d) == Selected(CurrentShape.shapeStr[d + 1], data[d + 1])

\* every element of the array A comes from source index i of dimension d
FixedAt(A, d, i) ==
    \A ix \in DOMAIN A.at : \A e \in A.at[ix] : e[d + 1] = i

\* the last event was a tick of the timer that drew a frame of the
\* animation of the dimension animation_state names
FrameDrawn ==
    /\ event.kind = "tick"
    /\ exc = NoExc
    /\ Shape.animation_state # -1
    /\ Graph._anim_dim # None

\* a tick has moved the animation of dimension d to the next index of d
\* and shows the base cutout with d fixed there
SteppedAlong(d) ==
    /\ Graph._anim_step = (event.step + 1) % Len(ShownAlong(d))
    /\ FixedAt(Graph.cutout, d, ShownAlong(d)[Graph._anim_step + 1])
    /\ \E axis \in 0..(Len(Graph._anim_cutout.shape) - 1) :
          /\ Graph._anim_step < Graph._anim_cutout.shape[axis + 1]
          /\ Graph.cutout = take(Graph._anim_cutout, Graph._anim_step, axis)

\* C22 as stated: while the animation of source dimension d is active
\* every tick of the timer advances the step by one modulo the size of d,
\* and the cutout displayed is the pre-animation cutout with d fixed at
\* that step and the other displayed dimensions unchanged, whatever the
\* scalar dimensions, the other operation dimensions and Transp are; a
\* tick never ends the animation.
C22_AsStated ==
    /\ (event.kind = "tick" /\ Shape.animation_state # -1)
          => exc = NoExc /\ Graph._anim_dim # None
    /\ FrameDrawn => SteppedAlong(Shape.animation_state)

\* C27 as stated: after every change_animation_state call animation_state
\* is different from -1 exactly if the graph is animating (_anim_dim is not
\* None) and then names the dimension clicked; a right click on a scalar
\* dimension leaves animation_state = -1.
C27_AsStated ==
    event.kind = "animate" =>
        /\ (Shape.animation_state # -1) <=> (Graph._anim_dim # None)
        /\ Shape.animation_state \in {-1, event.index}
        /\ (/\ event.index \in DimSet(event.was.scalDims)
            /\ event.was.animation_state = -1)
              => Shape.animation_state = -1

\* C28 as stated: in every reachable state operation_state of the
\* ShapeSelector equals _oprdim of the GraphWidget when a reduction is
\* selected, and both are empty when none is selected.
C28_AsStated ==
    IF Graph.has_operation
    THEN DimSet(Shape.operation_state) = DimSet(Graph._oprdim)
    ELSE Shape.operation_state = <<>> /\ Graph._oprdim = <<>>

-----------------------------------------------------------------------------
(* One array in the viewer, selected with a stored slice: the user clicks  *)
(* the plot, right-clicks labels to animate a dimension and toggles        *)
(* Transp, and the animation timer fires                                   *)

\* a user clicks the plot at most MaxClicks times
MaxClicks == 1

\* the arrays and the texts of their fields: a line, an image and a mosaic
ClickViews ==
    {[shape |-> <<3>>, fields |-> <<<<>>>>],
     [shape |-> <<2, 3>>, fields |-> <<<<>>, <<>>>>],
     [shape |-> <<2, 2, 2>>, fields |-> <<<<>>, <<>>, <<>>>>]}

\* the array has been selected, its stored slice has been put into the
\* fields and drawn
InitClick ==
    /\ \E v \in ClickViews :
          /\ data = v.shape
          /\ OneArray
          /\ slices = {<<_slice_key, v.fields>>}
          /\ Loaded(update_shape_stored(GraphInit, data, FALSE, OptsOff,
                                        v.fields))
    /\ Transp = FALSE
    /\ opts = OptsOff
    /\ event = NoEvent
    /\ nEdits = 0
    /\ nOps = 0
    /\ nClicks = 0
    /\ MosaicIdle
    /\ TicksIdle
    /\ RgbIdle

\* a click without a modifier key on a pixel (x, y) of the displayed image
ClickImage ==
    /\ Graph.picker
    /\ Graph.shown.kind \in {"image", "mosaic", "rgb"}
    /\ nClicks < MaxClicks
    /\ nClicks' = nClicks + 1
    /\ \E y \in 0..(Graph.shown.dat.shape[1] - 1),
          x \in 0..(Graph.shown.dat.shape[2] - 1) :
          /\ event' = [kind |-> "click", xyz |-> <<x, y>>,
                       elem |-> Graph.shown.dat.at[<<y, x>>],
                       pad |-> DefaultPad,
                       animated |-> Graph._anim_dim # None]
          /\ Becomes(Clicked(Shape, Graph, onclick(Graph, x, y)))
    /\ UNCHANGED <<_data, cText, data, Transp, opts, slices, nEdits, nOps>>
    /\ UNCHANGED <<mosaicVars, tickVars, rgbVars, loadVars>>

\* a click without a modifier key on the point idx of the displayed line, or
\* of one of the displayed lines of the rows
ClickLine ==
    /\ Graph.picker
    /\ Graph.shown.kind \in {"line", "lines"}
    /\ nClicks < MaxClicks
    /\ nClicks' = nClicks + 1
    /\ \E idx \in 0..(Graph.cutout.shape[1] - 1) :
          /\ event' = [kind |-> "click", xyz |-> <<idx>>,
                       elem |-> Nan,
                       pad |-> DefaultPad,
                       animated |-> Graph._anim_dim # None]
          /\ Becomes(Clicked(Shape, Graph, OnclickLine(Graph, idx)))
    /\ UNCHANGED <<_data, cText, data, Transp, opts, slices, nEdits, nOps>>
    /\ UNCHANGED <<mosaicVars, tickVars, rgbVars, loadVars>>

NextClick ==
    ClickImage \/ ClickLine \/ RightClickLabel \/ TimerTick \/ ToggleTransp

SpecClick == InitClick /\ [][NextClick]_vars

\* C26 as stated: in every reachable state GraphWidget._anim_dim is not
\* None only if the animation timer is active, so that once the timer has
\* been stopped (by renewPlot, by stop_animation or by the bound check of
\* _animate) clicks on the plot are processed again by onclick.
C26_AsStated == Graph._anim_dim # None => Graph._anim_timer

-----------------------------------------------------------------------------
(* A cutout of rank 3 drawn as a mosaic by _n_D_plot and clicked: the      *)
(* padding of the drawing and the padding of the inversion in onclick      *)

\* the cutouts drawn: first axes below, at and above PadPer
PadShapes ==
    {<<2, 2, 2>>, <<3, 1, 2>>, <<99, 1, 2>>, <<100, 1, 2>>, <<101, 1, 1>>}

InitPad ==
    /\ mShape \in PadShapes
    /\ mPad = 0
    /\ mRows = 0
    /\ mFlat = NoArray
    /\ mClick = <<>>
    /\ mInd = <<>>
    /\ TicksIdle
    /\ RgbIdle
    /\ ViewIdle

\* _n_D_plot draws the cutout of shape mShape: nPad = sh[0] // 100 + 1 and
\* dat = _flat_with_padding(self.cutout, nPad)
DrawMosaic ==
    /\ mFlat = NoArray
    /\ mPad' = mShape[1] \div PadPer + 1
    /\ mRows' = _rows_from_dim(mShape)
    /\ mFlat' = _flat_with_padding(SourceArr(mShape), mPad', Nan)
    /\ UNCHANGED <<mShape, mClick, mInd>>
    /\ UNCHANGED <<tickVars, rgbVars, viewVars, loadVars>>

\* onclick on the pixel [x, y] of the mosaic:
\* xyz = _unravel_flat_with_padding(xyz, self.cutout.shape)
ClickMosaic ==
    /\ mFlat # NoArray
    /\ mClick = <<>>
    /\ \E y \in 0..(mFlat.shape[1] - 1), x \in 0..(mFlat.shape[2] - 1) :
          /\ mClick' = <<x, y>>
          /\ mInd' = _unravel_flat_with_padding(<<x, y>>, mShape, DefaultPad)
    /\ UNCHANGED <<mShape, mPad, mRows, mFlat>>
    /\ UNCHANGED <<tickVars, rgbVars, viewVars, loadVars>>

NextPad == DrawMosaic \/ ClickMosaic

SpecPad == InitPad /\ [][NextPad]_vars

\* C25 as stated: for every cutout drawn as a mosaic the padding onclick
\* uses to invert a clicked pixel is the padding _n_D_plot drew the mosaic
\* with (dim0 // 100 + 1): the index onclick computes is the inverse for
\* the layout drawn, and a pixel that shows an element yields its index.
C25_AsStated ==
    mClick # <<>> =>
        /\ mPad = DefaultPad
        /\ mInd = _unravel_flat_with_padding(mClick, mShape, mPad)
        /\ mFlat.at[<<mClick[2], mClick[1]>>] # Nan
              => mFlat.at[<<mClick[2], mClick[1]>>] = {mInd}

-----------------------------------------------------------------------------
(* Files are loaded by the Loader in its own thread while the user goes on *)
(* loading files, creating new data and calculating differences           *)

\* the user asks for at most MaxLoads files
MaxLoads == 3

\* the user creates at most MaxNew new data sets
MaxNew == 2

\* the user calculates at most MaxDiffs differences
MaxDiffs == 1

\* the files of the user: the components of the path (fname.split("/")),
\* whether os.path.getsize is above 15e9, what _add_data makes of the
\* extension and the shape of the array inside
LoadFiles ==
    {[path |-> <<"d", "a.npy">>, big |-> FALSE, as |-> "npy", shape |-> <<3>>],
     [path |-> <<"d", "b.npy">>, big |-> TRUE, as |-> "npy", shape |-> <<3>>],
     [path |-> <<"d", "c.png">>, big |-> FALSE, as |-> "image",
      shape |-> <<2, 2>>],
     [path |-> <<"d", "e.xyz">>, big |-> FALSE, as |-> "unknown",
      shape |-> <<>>]}

\* the names the user gives to new data in the dialog
NewNames == {"x", "d - a.npy"}

\* key = str(splitted[-2] + " - " + splitted[-1])
FileKey(f) == f.path[Len(f.path) - 1] \o " - " \o f.path[Len(f.path)]

RECURSIVE FreeKey(_, _, _)
\* n = 1; while key + "_" + str(n) in self.keys: n += 1
FreeKey(key, ks, n) ==
    IF \E k \in 1..Len(ks) : ks[k] = key \o "_" \o ToString(n)
    THEN FreeKey(key, ks, n + 1)
    ELSE key \o "_" \o ToString(n)

\* list.remove(key): the first occurrence leaves the list
Removed(ks, key) ==
    LET first == CHOOSE k \in 1..Len(ks) :
                    ks[k] = key /\ \A j \in 1..(k - 1) : ks[j] # key
    IN [j \in 1..(Len(ks) - 1) |-> IF j < first THEN ks[j] ELSE ks[j + 1]]

\* the buttons of the dialog of load_files
Answers == {"Yes", "No", "Add new Dataset"}

\* the key load_files loads the file under and the keys it leaves, or no
\* load if the user answers No
Requested(ks, key, answer) ==
    IF \A k \in 1..Len(ks) : ks[k] # key
    THEN [load |-> TRUE, key |-> key, keys |-> ks]
    ELSE IF answer = "Add new Dataset"
    THEN [load |-> TRUE, key |-> FreeKey(key, ks, 1), keys |-> ks]
    ELSE IF answer = "Yes"
    THEN [load |-> TRUE, key |-> key, keys |-> Removed(ks, key)]
    ELSE [load |-> FALSE, key |-> key, keys |-> ks]

\* d[key] = value
Stored(d, key, value) ==
    [k \in DOMAIN d \cup {key} |-> IF k = key THEN value ELSE d[k]]

InitLoad ==
    /\ MosaicIdle
    /\ TicksIdle
    /\ RgbIdle
    /\ ViewIdle

\* load_files([fname]): rq is what the test of the key and the dialog
\* leave
LoadRequested(f, rq) ==
    /\ keys' = rq.keys
    /\ IF rq.load
       THEN /\ loading' = loading + 1
            /\ loads' = Append(loads, [file |-> f, key |-> rq.key,
                                       answered |-> None])
       ELSE UNCHANGED <<loading, loads>>

\* the user opens or drops a file: load_files
LoadFile ==
    /\ Len(loads) < MaxLoads
    /\ \E f \in LoadFiles, answer \in Answers :
          LoadRequested(f, Requested(keys, FileKey(f), answer))
    /\ UNCHANGED <<diffNo, signals>>
    /\ UNCHANGED <<mosaicVars, tickVars, rgbVars, viewVars>>

\* the load signals the Loader has not handled yet
Queued == {i \in 1..Len(loads) : loads[i].answered = None}

\* Loader._add_data for the i-th load signal: an oversized file is answered
\* with doneLoading({}, ''), a file of a known extension with its data and
\* key; for any other file the else branch is left by an exception or by
\* return False, and no doneLoading is emitted
AddData(i) ==
    IF loads[i].file.big
    THEN /\ signals' = Append(signals, [req |-> i, key |-> "",
                                        data |-> <<>>])
         /\ loads' = [loads EXCEPT ![i].answered = Some(1)]
    ELSE IF loads[i].file.as \in {"image", "unknown"}
    THEN /\ loads' = [loads EXCEPT ![i].answered = Some(0)]
         /\ UNCHANGED signals
    ELSE /\ signals' = Append(signals, [req |-> i, key |-> loads[i].key,
                                        data |-> loads[i].file.shape])
         /\ loads' = [loads EXCEPT ![i].answered = Some(1)]

\* the thread of the Loader handles the oldest load signal in its queue
LoaderStep ==
    /\ Queued # {}
    /\ AddData(CHOOSE i \in Queued : \A j \in Queued : i <= j)
    /\ UNCHANGED <<keys, diffNo, loading>>
    /\ UNCHANGED <<mosaicVars, tickVars, rgbVars, viewVars>>

\* on_done_loading(data, key), with _update_tree clearing the tree
on_done_loading ==
    /\ signals # <<>>
    /\ IF Head(signals).key # ""
       THEN /\ _data' = Stored(_data, Head(signals).key, Head(signals).data)
            /\ keys' = Append(keys, Head(signals).key)
       ELSE UNCHANGED <<_data, keys>>
    /\ loading' = 0
    /\ signals' = Tail(signals)
    /\ UNCHANGED <<diffNo, loads>>
    /\ UNCHANGED <<cText, data, Shape, Graph, Transp, opts, slices, exc,
                   passed, errMsg, event, nEdits, nOps, nClicks>>
    /\ UNCHANGED <<mosaicVars, tickVars, rgbVars>>

\* the number of the keys the user has created with the new data dialog
NewCount == Cardinality({k \in 1..Len(keys) : keys[k] \in NewNames})

\* _dlg_new_data when the dialog returns a name as the key
NewDataSaved ==
    /\ NewCount < MaxNew
    /\ \E key \in NewNames, shape \in {<<3>>} :
          /\ _data' = Stored(_data, key, shape)
          /\ keys' = Append(keys, key)
    /\ loading' = 0
    /\ UNCHANGED <<diffNo, loads, signals>>
    /\ UNCHANGED <<cText, data, Shape, Graph, Transp, opts, slices, exc,
                   passed, errMsg, event, nEdits, nOps, nClicks>>
    /\ UNCHANGED <<mosaicVars, tickVars, rgbVars>>

\* _calc_diff with the arrays of two items checked in the tree
_calc_diff ==
    /\ diffNo < MaxDiffs
    /\ \E i \in 1..Len(keys), j \in 1..Len(keys) :
          /\ i # j
          /\ _data[keys[i]] = _data[keys[j]]
          /\ _data' = Stored(_data, "Diff " \o ToString(diffNo),
                             _data[keys[i]])
    /\ keys' = Append(keys, "Diff " \o ToString(diffNo))
    /\ diffNo' = diffNo + 1
    /\ UNCHANGED <<loading, loads, signals>>
    /\ UNCHANGED <<cText, data, Shape, Graph, Transp, opts, slices, exc,
                   passed, errMsg, event, nEdits, nOps, nClicks>>
    /\ UNCHANGED <<mosaicVars, tickVars, rgbVars>>

NextLoad ==
    LoadFile \/ LoaderStep \/ on_done_loading \/ NewDataSaved \/ _calc_diff

SpecLoad == InitLoad /\ [][NextLoad]_vars

\* the event loops of the thread of the Loader and of the viewer handle
\* every signal queued for them
SpecLoadFair ==
    SpecLoad /\ WF_vars(LoaderStep) /\ WF_vars(on_done_loading)

\* C29 as stated: whatever the interleaving of load_files, on_done_loading,
\* diffs and new data, keys holds no key twice and every key of keys is a
\* key of _data.
C29_AsStated ==
    /\ \A i \in 1..Len(keys), j \in 1..Len(keys) : keys[i] = keys[j] => i = j
    /\ \A i \in 1..Len(keys) : keys[i] \in DOMAIN _data

\* the i-th load signal has been answered with one doneLoading signal and
\* on_done_loading has run for it
Completed(i) ==
    /\ Len(loads) >= i
    /\ loads[i].answered = Some(1)
    /\ \A k \in 1..Len(signals) : signals[k].req # i

\* C30 as stated: every load signal sent to the Loader, whatever the file,
\* is eventually answered with exactly one doneLoading signal, on which
\* on_done_loading runs, and the 'loading...' item load_files added
\* eventually leaves the tree.
C30_AsStated ==
    /\ \A i \in 1..MaxLoads : (Len(loads) >= i) ~> Completed(i)
    /\ (loading > 0) ~> (loading = 0)

====
